---- MODULE Spec2Model ----
(***************************************************************************)
(* Model of the CDSW Python 3.12 helper scripts                            *)
(*   cdsw_python312_helper_fixed.py, fix_cdsw_python_version.py,           *)
(*   cdsw_python_switcher.py, cdsw_python312_installer.py,                 *)
(*   cdsw_switch_to_venv.py                                                *)
(*                                                                         *)
(* A text (a path, the value of an environment variable, the output of a   *)
(* command, the content of a file) is a sequence of tokens: the separators *)
(* "/", ":", "~", the white space " " and "\n", and whole names such as    *)
(* "usr" or "python3.12".  The string functions of the Python library that *)
(* the scripts call are computed on these sequences as the library         *)
(* computes them on characters.                                            *)
(***************************************************************************)
EXTENDS Integers, Sequences, FiniteSets, TLC

VARIABLES
    version,         \* sys.version_info of the running interpreter: <<major, minor>>
    passwd,          \* the password database: user name -> home directory
    sys_executable,  \* sys.executable
    environ,         \* os.environ: a function from the names that are set to their values
    sys_path,        \* sys.path: a sequence of paths
    fs,              \* the file system: path -> [kind, data]
    calls,           \* number of operations the process has performed
    phase,           \* "running", or "exited" once a script's main has ended
    last,            \* what the last operation did: name, result, exception, commands, steps
    runs             \* the runs that share the file system concurrently: id -> [pc, ...]

vars == <<version, passwd, sys_executable, environ, sys_path, fs, calls, phase, last, runs>>

-----------------------------------------------------------------------------
(* Texts                                                                   *)

Whitespace == {" ", "\n"}

\* str.strip(): leading and trailing white space removed
RECURSIVE lstrip(_)
lstrip(s) == IF s # <<>> /\ Head(s) \in Whitespace THEN lstrip(Tail(s)) ELSE s

RECURSIVE rstrip(_)
rstrip(s) ==
    IF s # <<>> /\ s[Len(s)] \in Whitespace THEN rstrip(SubSeq(s, 1, Len(s) - 1)) ELSE s

strip(s) == rstrip(lstrip(s))

\* str.rstrip('/')
RECURSIVE rstrip_sep(_)
rstrip_sep(s) ==
    IF s # <<>> /\ s[Len(s)] = "/" THEN rstrip_sep(SubSeq(s, 1, Len(s) - 1)) ELSE s

\* str.rfind('/') + 1: the position just after the last "/", 0 when there is none
rfind_sep(p) ==
    LET idx == {i \in 1..Len(p) : p[i] = "/"}
    IN  IF idx = {} THEN 0 ELSE CHOOSE i \in idx : \A j \in idx : j <= i

\* str.find(c): the first position of c, 0 when there is none
find_tok(s, c) ==
    LET idx == {i \in 1..Len(s) : s[i] = c}
    IN  IF idx = {} THEN 0 ELSE CHOOSE i \in idx : \A j \in idx : i <= j

\* posixpath.dirname
dirname(p) ==
    LET head == SubSeq(p, 1, rfind_sep(p))
    IN  IF head # <<>> /\ (\E i \in 1..Len(head) : head[i] # "/")
        THEN rstrip_sep(head)
        ELSE head

\* posixpath.join(a, b)
join(a, b) ==
    IF b # <<>> /\ Head(b) = "/" THEN b
    ELSE IF a = <<>> \/ a[Len(a)] = "/" THEN a \o b
    ELSE a \o <<"/">> \o b

join3(a, b, c) == join(join(a, b), c)

join4(a, b, c, d) == join(join3(a, b, c), d)

\* str.split(':')
RECURSIVE split(_)
split(s) ==
    LET i == find_tok(s, ":")
    IN  IF i = 0 THEN <<s>>
        ELSE <<SubSeq(s, 1, i - 1)>> \o split(SubSeq(s, i + 1, Len(s)))

\* sub in s, for texts
Contains(s, sub) ==
    \E i \in 0..(Len(s) - Len(sub)) : SubSeq(s, i + 1, i + Len(sub)) = sub

\* os.environ.get(k, default)
environ_get(env, k, default) == IF k \in DOMAIN env THEN env[k] ELSE default

\* os.environ[k] = v
environ_set(env, k, v) ==
    [x \in (DOMAIN env) \cup {k} |-> IF x = k THEN v ELSE env[x]]

\* the user whose process runs the scripts
CurrentUser == "cdsw"

\* posixpath.expanduser
expanduser(env, pw, path) ==
    IF path = <<>> \/ Head(path) # "~" THEN path
    ELSE
        LET rest == Tail(path)
            j    == find_tok(rest, "/")
            i    == IF j = 0 THEN Len(path) ELSE j          \* tokens of path[:i]
            name == SubSeq(path, 2, i)
            known ==
                IF name = <<>>
                THEN "HOME" \in DOMAIN env \/ CurrentUser \in DOMAIN pw
                ELSE Len(name) = 1 /\ name[1] \in DOMAIN pw
            userhome ==
                IF name = <<>>
                THEN IF "HOME" \in DOMAIN env THEN env["HOME"] ELSE pw[CurrentUser]
                ELSE pw[name[1]]
            result == rstrip_sep(userhome) \o SubSeq(path, i + 1, Len(path))
        IN  IF ~known THEN path
            ELSE IF result = <<>> THEN <<"/">> ELSE result


-----------------------------------------------------------------------------
(* The file system: a function from the paths that exist to their nodes.   *)
(* A node is a directory, a regular file (data: its content) or a symbolic *)
(* link (data: its target).                                                *)

Dir == [kind |-> "dir", data |-> <<>>]

File(content) == [kind |-> "file", data |-> content]

Link(target) == [kind |-> "link", data |-> target]

\* os.path.lexists
lexists(f, p) == p \in DOMAIN f

\* os.path.exists: a symbolic link exists when its target does
exists(f, p) ==
    /\ p \in DOMAIN f
    /\ f[p].kind = "link" =>
          /\ f[p].data \in DOMAIN f
          /\ f[f[p].data].kind # "link"

\* os.path.isdir
isdir(f, p) ==
    /\ exists(f, p)
    /\ \/ f[p].kind = "dir"
       \/ f[p].kind = "link" /\ f[f[p].data].kind = "dir"

\* q is p or lies below p
Below(p, q) ==
    /\ Len(p) <= Len(q)
    /\ SubSeq(q, 1, Len(p)) = p
    /\ Len(q) > Len(p) => (q[Len(p) + 1] = "/" \/ p[Len(p)] = "/")

\* the directory a new entry p is made in exists (the working directory always does)
parent_ok(f, p) == dirname(p) = <<>> \/ isdir(f, dirname(p))

fs_put(f, p, node) == [x \in (DOMAIN f) \cup {p} |-> IF x = p THEN node ELSE f[x]]

fs_del(f, gone) == [x \in (DOMAIN f) \ gone |-> f[x]]

\* the proper ancestors of p, and p itself
RECURSIVE ancestors(_)
ancestors(p) ==
    IF dirname(p) = p \/ dirname(p) = <<>> THEN {p} ELSE {p} \cup ancestors(dirname(p))

\* os.makedirs(p, exist_ok=True): [exc, fs]
makedirs(f, p) ==
    LET anc == ancestors(p)
    IN  IF \E a \in anc \ {p} : lexists(f, a) /\ ~isdir(f, a)
        THEN [exc |-> "NotADirectoryError", fs |-> f]
        ELSE IF lexists(f, p) /\ ~isdir(f, p)
        THEN [exc |-> "FileExistsError", fs |-> f]
        ELSE [exc |-> "none",
              fs |-> [x \in (DOMAIN f) \cup anc |-> IF x \in DOMAIN f THEN f[x] ELSE Dir]]

\* os.remove(p): [exc, fs]
remove(f, p) ==
    IF ~lexists(f, p) THEN [exc |-> "FileNotFoundError", fs |-> f]
    ELSE IF f[p].kind = "dir" THEN [exc |-> "IsADirectoryError", fs |-> f]
    ELSE [exc |-> "none", fs |-> fs_del(f, {p})]

\* os.symlink, had it replaced what is at p instead of failing
symlink_replacing(f, target, p) ==
    IF ~parent_ok(f, p) THEN [exc |-> "FileNotFoundError", fs |-> f]
    ELSE [exc |-> "none", fs |-> fs_put(f, p, Link(target))]

\* os.symlink(target, p): [exc, fs]
symlink(f, target, p) ==
    IF lexists(f, p) THEN [exc |-> "FileExistsError", fs |-> f]
    ELSE IF ~parent_ok(f, p) THEN [exc |-> "FileNotFoundError", fs |-> f]
    ELSE [exc |-> "none", fs |-> fs_put(f, p, Link(target))]

\* shutil.rmtree(p): [exc, fs]
rmtree(f, p) ==
    IF ~lexists(f, p) THEN [exc |-> "FileNotFoundError", fs |-> f]
    ELSE IF f[p].kind = "link" THEN [exc |-> "OSError", fs |-> f]
    ELSE IF f[p].kind = "file" THEN [exc |-> "NotADirectoryError", fs |-> f]
    ELSE [exc |-> "none", fs |-> fs_del(f, {q \in DOMAIN f : Below(p, q)})]

\* with open(p, 'w') as f: f.write(content): [exc, fs]
write_file(f, p, content) ==
    IF lexists(f, p) /\ isdir(f, p) THEN [exc |-> "IsADirectoryError", fs |-> f]
    ELSE IF lexists(f, p) /\ f[p].kind = "link" /\ exists(f, p)
    THEN [exc |-> "none", fs |-> fs_put(f, f[p].data, File(content))]
    ELSE IF lexists(f, p) /\ f[p].kind = "link"
    THEN IF parent_ok(f, f[p].data)
         THEN [exc |-> "none", fs |-> fs_put(f, f[p].data, File(content))]
         ELSE [exc |-> "FileNotFoundError", fs |-> f]
    ELSE IF ~parent_ok(f, p) THEN [exc |-> "FileNotFoundError", fs |-> f]
    ELSE [exc |-> "none", fs |-> fs_put(f, p, File(content))]

-----------------------------------------------------------------------------
(* The process and the commands it runs                                    *)

\* the mutable state of the process, threaded through the functions
Cur == [exe |-> sys_executable, env |-> environ, syspath |-> sys_path, fs |-> fs]

\* sys.version_info >= (a, b)
VersionAtLeast(a, b) == version[1] > a \/ (version[1] = a /\ version[2] >= b)

\* the value '3.12' given to PY_PYTHON and PYTHON_VERSION
V312 == <<"3.12">>

\* the standard library directory of the running interpreter, which sys.path starts with
StdlibDir(v) ==
    <<"/", "usr", "/", "lib", "/",
      IF v = <<3, 6>> THEN "python3.6"
      ELSE IF v = <<3, 8>> THEN "python3.8"
      ELSE IF v = <<3, 12>> THEN "python3.12"
      ELSE "python3.x">>

\* the standard library of the running interpreter is found through sys.path
stdlib_importable(st) ==
    \E i \in 1..Len(st.syspath) : st.syspath[i] = StdlibDir(version)

\* import zoneinfo: a module of the standard library since 3.9
import_zoneinfo(st) == VersionAtLeast(3, 9) /\ stdlib_importable(st)

\* import fcntl: an extension module of the standard library
import_fcntl(st) == stdlib_importable(st)

\* import tomllib: a module of the standard library since 3.11
import_tomllib(st) == VersionAtLeast(3, 11) /\ stdlib_importable(st)

\* what an external command does: it exits 0 with its output, exits non-zero,
\* or its executable is not found
Ok(out) == [kind |-> "ok", out |-> out]

NonZero == [kind |-> "nonzero", out |-> <<>>]

NotFound == [kind |-> "notfound", out |-> <<>>]

\* the result of a function: the process state it leaves, its return value
\* (ret: "True", "False", "None" or "value", the value then in val), the
\* exception that left it (exc, "none" when it returned), the commands it ran
\* and, for a main, the steps it took
Result(st, ret, val, exc, cmds, steps) ==
    [st |-> st, ret |-> ret, val |-> val, exc |-> exc, cmds |-> cmds, steps |-> steps]

Returns(st, ret, cmds) == Result(st, ret, <<>>, "none", cmds, <<>>)

Raises(st, exc, cmds) == Result(st, "raised", <<>>, exc, cmds, <<>>)

\* subprocess.run(cmd, ...) called by function fn; kw: the call passes text= or
\* capture_output=, keywords that subprocess accepts from Python 3.7 on;
\* check: the call passes check=True.  [exc, cmds, out, returncode]
subprocess_run(fn, cmd, kw, check, o) ==
    LET ev == <<[fn |-> fn, cmd |-> cmd, res |-> o.kind, out |-> o.out]>>
    IN  IF kw /\ ~VersionAtLeast(3, 7)
        THEN [exc |-> "TypeError", cmds |-> <<>>, out |-> <<>>, returncode |-> 0]
        ELSE IF o.kind = "notfound"
        THEN [exc |-> "FileNotFoundError", cmds |-> ev, out |-> <<>>, returncode |-> 0]
        ELSE IF o.kind = "nonzero"
        THEN [exc |-> IF check THEN "CalledProcessError" ELSE "none",
              cmds |-> ev, out |-> <<>>, returncode |-> 1]
        ELSE [exc |-> "none", cmds |-> ev, out |-> o.out, returncode |-> 0]

\* the directory put after the current PATH instead of before it
append_path(env, d) ==
    environ_set(env, "PATH", environ_get(env, "PATH", <<>>) \o <<":">> \o d)

\* PATH set to directory d alone, the entries it had dropped
replace_path(env, d) == environ_set(env, "PATH", d)

\* os.environ['PATH'] = d + ":" + os.environ.get('PATH', '')
prepend_path(env, d) ==
    environ_set(env, "PATH", d \o <<":">> \o environ_get(env, "PATH", <<>>))

\* os.environ['PY_PYTHON'] = '3.12'; os.environ['PYTHON_VERSION'] = '3.12'
set_version_vars(env) ==
    environ_set(environ_set(env, "PY_PYTHON", V312), "PYTHON_VERSION", V312)

-----------------------------------------------------------------------------
(* cdsw_python312_helper_fixed.py                                          *)

\* switch_to_python312(); w: what `which python3.12` does
switch_to_python312(st, w) ==
    LET r == subprocess_run("switch_to_python312", "which python3.12", TRUE, TRUE, w)
        python312_path == strip(r.out)
        python312_dir  == dirname(python312_path)
        env1 == prepend_path(st.env, python312_dir)
        env2 == set_version_vars(env1)
    IN  IF r.exc = "none"
        THEN Returns([st EXCEPT !.exe = python312_path, !.env = env2], "True", r.cmds)
        ELSE Returns(st, "False", r.cmds)     \* except CalledProcessError, except Exception

\* the candidate paths of switch_to_python312_advanced, in its order
common_locations ==
    << <<"/", "usr", "/", "bin", "/", "python3.12">>,
       <<"/", "usr", "/", "local", "/", "bin", "/", "python3.12">>,
       <<"/", "opt", "/", "python3.12", "/", "bin", "/", "python3.12">> >>

\* the first candidate path that exists, <<>> (None) when none does
first_location(f) ==
    LET idx == {i \in 1..Len(common_locations) : exists(f, common_locations[i])}
    IN  IF idx = {} THEN <<>>
        ELSE common_locations[CHOOSE i \in idx : \A j \in idx : i <= j]

\* switch_to_python312_advanced(); w: what `which python3.12` does
switch_to_python312_advanced(st, w) ==
    LET r == subprocess_run("switch_to_python312_advanced", "which python3.12",
                            TRUE, TRUE, w)
        found == IF r.exc = "none" THEN strip(r.out) ELSE <<>>
        python312_path == IF found = <<>> THEN first_location(st.fs) ELSE found
        python312_dir  == dirname(python312_path)
        env1 == prepend_path(st.env, python312_dir)
        env2 == set_version_vars(env1)
    IN  IF r.exc \notin {"none", "CalledProcessError"}
        THEN Raises(st, r.exc, r.cmds)
        ELSE IF python312_path = <<>>
        THEN Returns(st, "False", r.cmds)
        ELSE Returns([st EXCEPT !.exe = python312_path, !.env = env2], "True", r.cmds)

-----------------------------------------------------------------------------
(* fix_cdsw_python_version.py                                              *)

\* fix_python_version setting PY_PYTHON and PYTHON_VERSION before it looks
\* python3.12 up
fix_sets_version_vars_first(st, w) ==
    LET r == subprocess_run("fix_python_version", "which python3.12", TRUE, TRUE, w)
        python312_path == strip(r.out)
        env0 == set_version_vars(st.env)
        env1 == prepend_path(env0, dirname(python312_path))
        st1  == [st EXCEPT !.exe = python312_path, !.env = env1]
    IN  IF r.exc # "none"
        THEN Returns([st EXCEPT !.env = env0], "False", r.cmds)
        ELSE IF import_zoneinfo(st1)
        THEN Returns(st1, "True", r.cmds)
        ELSE Returns(st1, "False", r.cmds)

\* fix_python_version(); w: what `which python3.12` does
fix_python_version(st, w) ==
    LET r == subprocess_run("fix_python_version", "which python3.12", TRUE, TRUE, w)
        python312_path == strip(r.out)
        python312_dir  == dirname(python312_path)
        env1 == prepend_path(st.env, python312_dir)
        env2 == set_version_vars(env1)
        st1  == [st EXCEPT !.exe = python312_path, !.env = env2]
    IN  IF r.exc # "none"
        THEN Returns(st, "False", r.cmds)     \* except CalledProcessError, except Exception
        ELSE IF import_zoneinfo(st1)
        THEN Returns(st1, "True", r.cmds)
        ELSE Returns(st1, "False", r.cmds)

-----------------------------------------------------------------------------
(* cdsw_python_switcher.py                                                 *)

\* a probe that records the outputs as the commands printed them, untrimmed
probe_untrimmed(command, vo, wo) ==
    LET fn == "find_python_installations"
        r1 == subprocess_run(fn, command \o " --version", TRUE, TRUE, vo)
        r2 == subprocess_run(fn, "which " \o command, TRUE, TRUE, wo)
        caught == {"CalledProcessError", "FileNotFoundError"}
        none == [command |-> command, version |-> <<>>, location |-> <<>>]
    IN  IF r1.exc # "none"
        THEN [exc |-> IF r1.exc \in caught THEN "none" ELSE r1.exc,
              cmds |-> r1.cmds, found |-> FALSE, entry |-> none]
        ELSE IF r2.exc # "none"
        THEN [exc |-> IF r2.exc \in caught THEN "none" ELSE r2.exc,
              cmds |-> r1.cmds \o r2.cmds, found |-> FALSE, entry |-> none]
        ELSE [exc |-> "none", cmds |-> r1.cmds \o r2.cmds, found |-> TRUE,
              entry |-> [command |-> command, version |-> r1.out, location |-> r2.out]]

\* one probe of find_python_installations: `<command> --version` (vo), then
\* `which <command>` (wo) while the entry is being built.
\* [exc, cmds, found, entry]
probe(command, vo, wo) ==
    LET fn == "find_python_installations"
        r1 == subprocess_run(fn, command \o " --version", TRUE, TRUE, vo)
        r2 == subprocess_run(fn, "which " \o command, TRUE, TRUE, wo)
        caught == {"CalledProcessError", "FileNotFoundError"}
        none == [command |-> command, version |-> <<>>, location |-> <<>>]
    IN  IF r1.exc # "none"
        THEN [exc |-> IF r1.exc \in caught THEN "none" ELSE r1.exc,
              cmds |-> r1.cmds, found |-> FALSE, entry |-> none]
        ELSE IF r2.exc # "none"
        THEN [exc |-> IF r2.exc \in caught THEN "none" ELSE r2.exc,
              cmds |-> r1.cmds \o r2.cmds, found |-> FALSE, entry |-> none]
        ELSE [exc |-> "none", cmds |-> r1.cmds \o r2.cmds, found |-> TRUE,
              entry |-> [command |-> command, version |-> strip(r1.out),
                         location |-> strip(r2.out)]]

\* find_python_installations(); o: what the two commands do for each of
\* "3.6", "3.12" and "default".  val: the dictionary python_versions
find_python_installations(st, o) ==
    LET p36  == probe("python3.6", o["3.6"].v, o["3.6"].w)
        p312 == probe("python3.12", o["3.12"].v, o["3.12"].w)
        p3   == probe("python3", o["default"].v, o["default"].w)
        d1 == IF p36.found THEN {"3.6"} ELSE {}
        d2 == IF p312.found THEN d1 \cup {"3.12"} ELSE d1
        d3 == IF p3.found THEN d2 \cup {"default"} ELSE d2
        python_versions ==
            [k \in d3 |-> IF k = "3.6" THEN p36.entry
                          ELSE IF k = "3.12" THEN p312.entry ELSE p3.entry]
    IN  IF p36.exc # "none" THEN Raises(st, p36.exc, p36.cmds)
        ELSE IF p312.exc # "none" THEN Raises(st, p312.exc, p36.cmds \o p312.cmds)
        ELSE IF p3.exc # "none"
        THEN Raises(st, p3.exc, p36.cmds \o p312.cmds \o p3.cmds)
        ELSE Result(st, "value", python_versions, "none",
                    p36.cmds \o p312.cmds \o p3.cmds, <<>>)

\* verify_current_python(): "True" or "False"
verify_current_python ==
    IF version[1] >= 3 /\ version[2] >= 12 THEN "True" ELSE "False"

\* switch_to_python312_method1(); w: what `which python3.12` does
\* method 1 looking python3.12 up a second time when the lookup exits non-zero
method1_with_retry(st, w) ==
    LET r == subprocess_run("switch_to_python312_method1", "which python3.12",
                            TRUE, TRUE, w)
        python312_path == strip(r.out)
        python312_dir  == dirname(python312_path)
        env1 == prepend_path(st.env, python312_dir)
    IN  IF r.exc = "CalledProcessError" THEN Returns(st, "False", r.cmds \o r.cmds)
        ELSE IF r.exc # "none" THEN Raises(st, r.exc, r.cmds)
        ELSE Returns([st EXCEPT !.env = env1, !.exe = python312_path], "True", r.cmds)

switch_to_python312_method1(st, w) ==
    LET r == subprocess_run("switch_to_python312_method1", "which python3.12",
                            TRUE, TRUE, w)
        python312_path == strip(r.out)
        python312_dir  == dirname(python312_path)
        env1 == prepend_path(st.env, python312_dir)
    IN  IF r.exc = "CalledProcessError" THEN Returns(st, "False", r.cmds)
        ELSE IF r.exc # "none" THEN Raises(st, r.exc, r.cmds)
        ELSE Returns([st EXCEPT !.env = env1, !.exe = python312_path], "True", r.cmds)

\* "~/local/bin"
LocalBin == <<"~", "/", "local", "/", "bin">>

\* switch_to_python312_method2(); ua, w, w3: what `which update-alternatives`,
\* `which python3.12` and `which python3` do
switch_to_python312_method2(st, ua, w, w3) ==
    LET fn == "switch_to_python312_method2"
        r0 == subprocess_run(fn, "which update-alternatives", TRUE, FALSE, ua)
        r1 == subprocess_run(fn, "which python3.12", TRUE, TRUE, w)
        r2 == subprocess_run(fn, "which python3", TRUE, TRUE, w3)
        python312_path == strip(r1.out)
        local_bin     == expanduser(st.env, passwd, LocalBin)
        local_python3 == join(local_bin, <<"python3">>)
        mk  == makedirs(st.fs, local_bin)
        rm  == IF exists(mk.fs, local_python3)
               THEN remove(mk.fs, local_python3)
               ELSE [exc |-> "none", fs |-> mk.fs]
        ln  == symlink(rm.fs, python312_path, local_python3)
        env1 == prepend_path(st.env, local_bin)
        c01  == r0.cmds \o r1.cmds
        c012 == c01 \o r2.cmds
    IN  IF r0.exc # "none" THEN Raises(st, r0.exc, r0.cmds)
        ELSE IF r1.exc = "CalledProcessError" THEN Returns(st, "False", c01)
        ELSE IF r1.exc # "none" THEN Raises(st, r1.exc, c01)
        ELSE IF r2.exc = "CalledProcessError" THEN Returns(st, "False", c012)
        ELSE IF r2.exc # "none" THEN Raises(st, r2.exc, c012)
        ELSE IF mk.exc # "none" THEN Raises(st, mk.exc, c012)
        ELSE IF rm.exc # "none" THEN Raises([st EXCEPT !.fs = mk.fs], rm.exc, c012)
        ELSE IF ln.exc # "none" THEN Raises([st EXCEPT !.fs = rm.fs], ln.exc, c012)
        ELSE Returns([st EXCEPT !.fs = ln.fs, !.env = env1, !.exe = local_python3],
                     "True", c012)

\* method 3 falling back to /usr/bin/python3.12 when the lookup exits non-zero
method3_with_fallback(st, w) ==
    LET r == subprocess_run("switch_to_python312_method3", "which python3.12",
                            TRUE, TRUE, w)
        python312_path == IF r.exc = "none" THEN strip(r.out) ELSE common_locations[1]
        env1 == set_version_vars(st.env)
        env2 == prepend_path(env1, dirname(python312_path))
    IN  IF r.exc \notin {"none", "CalledProcessError"} THEN Raises(st, r.exc, r.cmds)
        ELSE Returns([st EXCEPT !.env = env2, !.exe = python312_path], "True", r.cmds)

\* switch_to_python312_method3 with its `except subprocess.CalledProcessError`
\* clause left out
method3_without_except(st, w) ==
    LET r == subprocess_run("switch_to_python312_method3", "which python3.12",
                            TRUE, TRUE, w)
        python312_path == strip(r.out)
        python312_dir  == dirname(python312_path)
        env1 == set_version_vars(st.env)
        env2 == prepend_path(env1, python312_dir)
    IN  IF r.exc # "none" THEN Raises(st, r.exc, r.cmds)
        ELSE Returns([st EXCEPT !.env = env2, !.exe = python312_path], "True", r.cmds)

\* switch_to_python312_method3(); w: what `which python3.12` does
switch_to_python312_method3(st, w) ==
    LET r == subprocess_run("switch_to_python312_method3", "which python3.12",
                            TRUE, TRUE, w)
        python312_path == strip(r.out)
        python312_dir  == dirname(python312_path)
        env1 == set_version_vars(st.env)
        env2 == prepend_path(env1, python312_dir)
    IN  IF r.exc = "CalledProcessError" THEN Returns(st, "False", r.cmds)
        ELSE IF r.exc # "none" THEN Raises(st, r.exc, r.cmds)
        ELSE Returns([st EXCEPT !.env = env2, !.exe = python312_path], "True", r.cmds)

\* the text create_persistent_switch_script writes
SwitchScriptContent ==
    <<"#!/bin/bash", "\n", "PYTHON312_PATH=$(which python3.12 2>/dev/null)", "\n",
      "export PATH=\"$PYTHON312_DIR:$PATH\"", "\n",
      "export PY_PYTHON=3.12", "\n", "export PYTHON_VERSION=3.12", "\n">>

\* the text create_python312_alias writes
AliasContent ==
    <<"\n", "alias python312='python3.12'", "\n", "alias pip312='python3.12 -m pip'",
      "\n", "alias python='/usr/bin/python3.12'", "\n">>

\* "~/switch_to_python312.sh"
SwitchScriptPath == <<"~", "/", "switch_to_python312.sh">>

\* "~/.bashrc_cdsw_python312"
AliasPath == <<"~", "/", ".bashrc_cdsw_python312">>

\* create_persistent_switch_script(): writes the script and returns its path,
\* None when the write raises
create_persistent_switch_script(st) ==
    LET script_path == expanduser(st.env, passwd, SwitchScriptPath)
        wr == write_file(st.fs, script_path, SwitchScriptContent)
    IN  IF wr.exc # "none" THEN Returns(st, "None", <<>>)
        ELSE Result([st EXCEPT !.fs = wr.fs], "value", script_path, "none", <<>>, <<>>)

\* create_python312_alias(): writes the alias file and returns its path,
\* None when the write raises
create_python312_alias(st) ==
    LET bashrc_path == expanduser(st.env, passwd, AliasPath)
        wr == write_file(st.fs, bashrc_path, AliasContent)
    IN  IF wr.exc # "none" THEN Returns(st, "None", <<>>)
        ELSE Result([st EXCEPT !.fs = wr.fs], "value", bashrc_path, "none", <<>>, <<>>)

-----------------------------------------------------------------------------
(* cdsw_python312_installer.py                                             *)

\* subprocess.run of the commands names[1], names[2], ... with check=True, in
\* order, until one raises; outs[i]: what names[i] does.  [exc, cmds]
RECURSIVE run_chain(_, _, _, _)
run_chain(fn, kw, names, outs) ==
    IF names = <<>> THEN [exc |-> "none", cmds |-> <<>>]
    ELSE LET r == subprocess_run(fn, Head(names), kw, TRUE, Head(outs))
         IN  IF r.exc # "none" THEN [exc |-> r.exc, cmds |-> r.cmds]
             ELSE LET rest == run_chain(fn, kw, Tail(names), Tail(outs))
                  IN  [exc |-> rest.exc, cmds |-> r.cmds \o rest.cmds]

\* the package-manager commands of install_python312_if_needed, in its order
InstallerAptCommands ==
    <<"sudo apt-get update",
      "sudo apt-get install -y software-properties-common wget build-essential ...",
      "sudo add-apt-repository -y ppa:deadsnakes/ppa",
      "sudo apt-get update",
      "sudo apt-get install -y python3.12 python3.12-dev python3.12-venv python3.12-distutils">>

\* what a successful installation of the python3.12 package leaves on disk
installed(f) == fs_put(f, common_locations[1], File(<<>>))

\* install_python312_if_needed(); v: what `python3.12 --version` does,
\* apt: what the package-manager commands do
install_python312_if_needed(st, v, apt) ==
    LET fn == "install_python312_if_needed"
        r0 == subprocess_run(fn, "python3.12 --version", TRUE, TRUE, v)
        ch == run_chain(fn, TRUE, InstallerAptCommands, apt)
    IN  IF r0.exc = "none" THEN Returns(st, "True", r0.cmds)
        ELSE IF r0.exc \notin {"CalledProcessError", "FileNotFoundError"}
        THEN Raises(st, r0.exc, r0.cmds)
        ELSE IF ch.exc = "none"
        THEN Returns([st EXCEPT !.fs = installed(st.fs)], "True", r0.cmds \o ch.cmds)
        ELSE IF ch.exc = "CalledProcessError"
        THEN Returns(st, "False", r0.cmds \o ch.cmds)
        ELSE Raises(st, ch.exc, r0.cmds \o ch.cmds)

\* "~/venvs/py312", the default venv_path
DefaultVenv == <<"~", "/", "venvs", "/", "py312">>

\* the site-packages directory of the virtual environment at venv_path
site_packages(venv_path) ==
    join4(venv_path, <<"lib">>, <<"python3.12">>, <<"site-packages">>)

\* what `python3.12 -m venv venv_path` puts on disk: all of it when it
\* succeeds, the directories and the interpreter link but no pip when it stops
\* at the installation of pip
venv_files(f, venv_path, whole) ==
    LET d1 == makedirs(f, join(venv_path, <<"bin">>)).fs
        d2 == makedirs(d1, site_packages(venv_path)).fs
        d3 == fs_put(d2, join3(venv_path, <<"bin">>, <<"python">>), File(<<>>))
    IN  IF whole THEN fs_put(d3, join3(venv_path, <<"bin">>, <<"pip">>), File(<<>>))
        ELSE d3

\* what running the pip of the virtual environment does: o when the file is
\* there, and no such file otherwise
pip_outcome(f, pip_path, o) == IF exists(f, pip_path) THEN o ELSE NotFound

\* the file system after `python3.12 -m venv venv_path` has done o
after_venv_command(f, venv_path, o, partial) ==
    IF o.kind = "ok" THEN venv_files(f, venv_path, TRUE)
    ELSE IF o.kind = "nonzero" /\ partial THEN venv_files(f, venv_path, FALSE)
    ELSE f

\* r with the commands cmds run before its own
Prefix(cmds, r) == [r EXCEPT !.cmds = cmds \o r.cmds]

\* the end of create_python312_venv: the pip upgrade has done r2 in state st
created_after_pip(st, venv_path, r2) ==
    IF r2.exc = "CalledProcessError" THEN Returns(st, "None", r2.cmds)
    ELSE IF r2.exc # "none" THEN Raises(st, r2.exc, r2.cmds)
    ELSE Result(st, "value", venv_path, "none", r2.cmds, <<>>)

\* create_python312_venv from the creation command on: it has done r1 and
\* left the file system f1; p: what the pip upgrade does, run with keywords kw
created_after_venv(fn, st, venv_path, r1, f1, kw, pipcmd, p) ==
    IF r1.exc = "TypeError" THEN Raises(st, r1.exc, r1.cmds)
    ELSE IF r1.exc = "CalledProcessError"
    THEN Returns([st EXCEPT !.fs = f1], "None", r1.cmds)
    ELSE IF r1.exc # "none" THEN Raises([st EXCEPT !.fs = f1], r1.exc, r1.cmds)
    ELSE Prefix(r1.cmds,
                created_after_pip([st EXCEPT !.fs = f1], venv_path,
                    subprocess_run(fn, pipcmd, kw, TRUE,
                        pip_outcome(f1, join3(venv_path, <<"bin">>, <<"pip">>), p))))

\* create_python312_venv of the installer once the old environment is removed (rm)
installer_create_after_rmtree(st, venv_path, rm, o, partial, p) ==
    IF rm.exc # "none" THEN Raises(st, rm.exc, <<>>)
    ELSE created_after_venv("create_python312_venv", [st EXCEPT !.fs = rm.fs], venv_path,
             subprocess_run("create_python312_venv", "python3.12 -m venv", TRUE, TRUE, o),
             IF VersionAtLeast(3, 7) THEN after_venv_command(rm.fs, venv_path, o, partial)
             ELSE rm.fs,
             TRUE, "pip install --upgrade pip setuptools wheel", p)

\* the removal of an existing virtual environment by create_python312_venv
remove_existing(f, venv_path) ==
    IF exists(f, venv_path) THEN rmtree(f, venv_path) ELSE [exc |-> "none", fs |-> f]

\* create_python312_venv(venv_path) of the installer; o: what
\* `python3.12 -m venv` does, partial: a failing one leaves files behind,
\* p: what the pip upgrade does.  Returns the expanded path, or None
installer_create_python312_venv(st, arg, o, partial, p) ==
    installer_create_after_rmtree(st, expanduser(st.env, passwd, arg),
        remove_existing(st.fs, expanduser(st.env, passwd, arg)), o, partial, p)

\* sys.path without the entries that name one of the old interpreters
RECURSIVE without_old(_, _)
without_old(sp, old) ==
    IF sp = <<>> THEN <<>>
    ELSE IF \E t \in old : Contains(Head(sp), <<t>>) THEN without_old(Tail(sp), old)
    ELSE <<Head(sp)>> \o without_old(Tail(sp), old)

\* the update of sys.path by a switch to the virtual environment
with_site_packages(f, sp, site, old) ==
    IF exists(f, site)
    THEN LET kept == without_old(sp, old)
         IN  IF \E i \in 1..Len(kept) : kept[i] = site THEN kept ELSE <<site>> \o kept
    ELSE sp

\* the switch of a session to the environment at venv_path: PATH,
\* VIRTUAL_ENV, sys.path (without the entries of the interpreters in old)
\* and sys.executable
switch_session_to(st, venv_path, old) ==
    Returns([st EXCEPT
               !.env = environ_set(prepend_path(st.env, join(venv_path, <<"bin">>)),
                                   "VIRTUAL_ENV", venv_path),
               !.syspath = with_site_packages(st.fs, st.syspath,
                                              site_packages(venv_path), old),
               !.exe = IF exists(st.fs, join3(venv_path, <<"bin">>, <<"python">>))
                       THEN join3(venv_path, <<"bin">>, <<"python">>)
                       ELSE st.exe],
            "True", <<>>)

\* switch_to_venv, had it refused an environment without bin/python
switch_to_venv_needing_python(st, arg) ==
    IF ~exists(st.fs, join3(expanduser(st.env, passwd, arg), <<"bin">>, <<"python">>))
    THEN Returns(st, "False", <<>>)
    ELSE switch_session_to(st, expanduser(st.env, passwd, arg),
                           {"python3.6", "python2.7"})

\* switch_to_venv(venv_path) of the installer
switch_to_venv(st, arg) ==
    IF ~exists(st.fs, expanduser(st.env, passwd, arg)) THEN Returns(st, "False", <<>>)
    ELSE switch_session_to(st, expanduser(st.env, passwd, arg),
                           {"python3.6", "python2.7"})

\* install_common_packages(venv_path); p: what the pip command does
install_common_packages(st, arg, p) ==
    LET venv_path == expanduser(st.env, passwd, arg)
        pip_path  == join3(venv_path, <<"bin">>, <<"pip">>)
        r == subprocess_run("install_common_packages", "pip install numpy pandas ...",
                            TRUE, TRUE, pip_outcome(st.fs, pip_path, p))
    IN  IF r.exc = "none" THEN Returns(st, "True", r.cmds)
        ELSE IF r.exc = "CalledProcessError" THEN Returns(st, "False", r.cmds)
        ELSE Raises(st, r.exc, r.cmds)

\* a verification that trusts the environment: it succeeds once VIRTUAL_ENV
\* is set
verify_by_virtual_env(st) ==
    IF "VIRTUAL_ENV" \in DOMAIN st.env THEN "True" ELSE "False"

\* verify_python312_setup() of the installer: "True" or "False"
installer_verify_python312_setup(st) ==
    IF ~import_zoneinfo(st) THEN "False"
    ELSE IF ~import_fcntl(st) THEN "False"
    ELSE IF version[1] >= 3 /\ version[2] >= 12 THEN "True"
    ELSE "False"

\* "~/activate_py312.sh"
ActivationScriptPath == <<"~", "/", "activate_py312.sh">>

\* the activation script with the path of cdsw_switch_to_venv.py written into
\* it, whatever venv_path is
activation_script_fixed_path(venv_path) ==
    <<"#!/bin/bash", "\n", "export", " ", "VIRTUAL_ENV=", "\"",
      "/", "home", "/", "cdsw", "/", "venvs", "/", "py312",
      "\"", "\n", "export", " ", "PATH=", "\"",
      "/", "home", "/", "cdsw", "/", "venvs", "/", "py312",
      "/", "bin", ":", "$PATH", "\"", "\n", "unset", " ", "PYTHON_HOME", "\n">>

\* the text of the activation script for venv_path
activation_script(venv_path) ==
    <<"#!/bin/bash", "\n", "export", " ", "VIRTUAL_ENV=", "\"">> \o venv_path
    \o <<"\"", "\n", "export", " ", "PATH=", "\"">> \o venv_path
    \o <<"/", "bin", ":", "$PATH", "\"", "\n", "unset", " ", "PYTHON_HOME", "\n">>

\* create_activation_script(venv_path): writes the script and returns its
\* path, None when the write raises
create_activation_script(st, arg) ==
    LET venv_path == expanduser(st.env, passwd, arg)
        activation_script_path == expanduser(st.env, passwd, ActivationScriptPath)
        wr == write_file(st.fs, activation_script_path, activation_script(venv_path))
    IN  IF wr.exc # "none" THEN Returns(st, "None", <<>>)
        ELSE Result([st EXCEPT !.fs = wr.fs], "value", activation_script_path,
                    "none", <<>>, <<>>)

-----------------------------------------------------------------------------
(* cdsw_switch_to_venv.py                                                  *)

\* the package-manager commands of install_python312, in its order
VenvAptCommands ==
    <<"sudo apt-get update",
      "sudo apt-get install -y software-properties-common",
      "sudo add-apt-repository -y ppa:deadsnakes/ppa",
      "sudo apt-get update",
      "sudo apt-get install -y python3.12 python3.12-dev python3.12-venv">>

\* install_python312(); apt: what the package-manager commands do
install_python312(st, apt) ==
    LET ch == run_chain("install_python312", FALSE, VenvAptCommands, apt)
    IN  IF ch.exc = "none" THEN Returns([st EXCEPT !.fs = installed(st.fs)], "True", ch.cmds)
        ELSE IF ch.exc = "CalledProcessError" THEN Returns(st, "False", ch.cmds)
        ELSE Raises(st, ch.exc, ch.cmds)

\* create_python312_venv of cdsw_switch_to_venv.py after the installation
\* step, whose result is ins (the commands run so far are in ins.cmds)
venv_create_after_install(ins, venv_path, o, partial, p) ==
    IF ins.exc # "none" THEN ins
    ELSE Prefix(ins.cmds,
                created_after_venv("create_python312_venv", ins.st, venv_path,
                    subprocess_run("create_python312_venv", "python3.12 -m venv",
                                   FALSE, TRUE, o),
                    after_venv_command(ins.st.fs, venv_path, o, partial),
                    FALSE, "pip install --upgrade pip", p))

\* create_python312_venv of cdsw_switch_to_venv.py after `python3.12 --version`
\* has done r0
venv_create_after_check(st, r0, apt, o, partial, p) ==
    IF r0.exc = "none"
    THEN venv_create_after_install(Returns(st, "None", r0.cmds),
             expanduser(st.env, passwd, DefaultVenv), o, partial, p)
    ELSE IF r0.exc \in {"CalledProcessError", "FileNotFoundError"}
    THEN venv_create_after_install(Prefix(r0.cmds, install_python312(st, apt)),
             expanduser(st.env, passwd, DefaultVenv), o, partial, p)
    ELSE Raises(st, r0.exc, r0.cmds)

\* create_python312_venv() of cdsw_switch_to_venv.py; v: what
\* `python3.12 --version` does, apt: what the package-manager commands do,
\* o, partial: what `python3.12 -m venv` does, p: what the pip upgrade does
venv_create_python312_venv(st, v, apt, o, partial, p) ==
    venv_create_after_check(st,
        subprocess_run("create_python312_venv", "python3.12 --version", TRUE, TRUE, v),
        apt, o, partial, p)

\* what switch_to_python312_venv returns after create_python312_venv: a bare return
return_after_create(created) ==
    IF created.exc # "none" THEN created
    ELSE Returns(created.st, "None", created.cmds)

\* switch_to_python312_venv(); the arguments are what the commands of
\* create_python312_venv do when the virtual environment is missing
switch_to_python312_venv(st, v, apt, o, partial, p) ==
    IF ~exists(st.fs, expanduser(st.env, passwd, DefaultVenv))
    THEN return_after_create(venv_create_python312_venv(st, v, apt, o, partial, p))
    ELSE switch_session_to(st, expanduser(st.env, passwd, DefaultVenv), {"python3.6"})

\* verify_python312_setup() of cdsw_switch_to_venv.py: it prints, and returns None
venv_verify_python312_setup(st) == Returns(st, "None", <<>>)

-----------------------------------------------------------------------------
(* fix_cdsw_python_version.py, continued                                   *)

\* verify_fix(): the number of its three probes that pass decides
verify_fix(st) ==
    LET zoneinfo == IF import_zoneinfo(st) THEN 1 ELSE 0
        tomllib  == IF import_tomllib(st) THEN 1 ELSE 0
        exgroup  == IF VersionAtLeast(3, 11) THEN 1 ELSE 0
        passed   == zoneinfo + tomllib + exgroup
    IN  Returns(st, IF passed >= 1 THEN "True" ELSE "False", <<>>)

\* "~/cdsw_python312_helper.py"
HelperPath == <<"~", "/", "cdsw_python312_helper.py">>

\* the text create_helper_function writes
HelperContent ==
    <<"def switch_to_python312():", "\n", "def switch_to_python312_advanced():", "\n">>

\* create_helper_function(): writes the helper module and returns its path,
\* None when the write raises
create_helper_function(st) ==
    LET helper_file == expanduser(st.env, passwd, HelperPath)
        wr == write_file(st.fs, helper_file, HelperContent)
    IN  IF wr.exc # "none" THEN Returns(st, "None", <<>>)
        ELSE Result([st EXCEPT !.fs = wr.fs], "value", helper_file, "none", <<>>, <<>>)

-----------------------------------------------------------------------------
(* What the environment can do, and where a process starts                 *)

\* the largest number of function calls of one interactive session
MaxCalls == 1

\* the interpreters a process can be started under
Versions == {<<3, 6>>, <<3, 8>>, <<3, 12>>, <<4, 0>>}

Home == <<"/", "home", "/", "cdsw">>

UsrBin == <<"/", "usr", "/", "bin">>

OptBin == <<"/", "opt", "/", "py312", "/", "bin">>

\* the output of a successful `which python3.12`
WhichPython312Out ==
    {join(UsrBin, <<"python3.12">>) \o <<"\n">>, join(OptBin, <<"python3.12">>) \o <<"\n">>}

\* what `which python3.12` can do
WhichOutcomes == {Ok(out) : out \in WhichPython312Out} \cup {NonZero, NotFound}

\* what `which python3` and `which python3.6` can do
Which3Outcomes == {Ok(join(UsrBin, <<"python3">>) \o <<"\n">>), NonZero, NotFound}

Which36Outcomes == {Ok(join(UsrBin, <<"python3.6">>) \o <<"\n">>), NonZero, NotFound}

\* what `which update-alternatives` can do
WhichUaOutcomes ==
    {Ok(join(UsrBin, <<"update-alternatives">>) \o <<"\n">>), NonZero, NotFound}

\* what `<python> --version` can do
VersionOutcomes(text) == {Ok(<<"Python", " ", text, "\n">>), NonZero, NotFound}

\* what a command whose output is not read can do
CmdOutcomes == {Ok(<<>>), NonZero, NotFound}

\* what the pip of a virtual environment can do when it is there
PipOutcomes == {Ok(<<>>), NonZero}

\* what the five package-manager commands can do: all succeed, or the first
\* one that does not succeed is number k (no later one is run)
AptOracles ==
    {[i \in 1..5 |-> Ok(<<>>)]}
    \cup {[i \in 1..5 |-> IF i = k THEN bad ELSE Ok(<<>>)] :
            k \in 1..5, bad \in {NonZero, NotFound}}

\* what the two commands of one probe can do (the second is not run when the
\* first does not succeed)
ProbeOutcomes(vs, ws) ==
    {[v |-> v, w |-> w] : v \in {x \in vs : x.kind = "ok"}, w \in ws}
    \cup {[v |-> v, w |-> NonZero] : v \in {x \in vs : x.kind # "ok"}}

\* what the probes of find_python_installations can do
ProbeOracles ==
    {[k \in {"3.6", "3.12", "default"} |->
         IF k = "3.6" THEN a ELSE IF k = "3.12" THEN b ELSE c] :
       a \in ProbeOutcomes(VersionOutcomes("3.6.9"), Which36Outcomes),
       b \in ProbeOutcomes(VersionOutcomes("3.12.3"), WhichOutcomes),
       c \in ProbeOutcomes(VersionOutcomes("3.6.9"), Which3Outcomes)}

\* the probes of a run of main: python3.12 probed in every way, the two other
\* names either found or missing
MainProbeOracles ==
    {o \in ProbeOracles :
        \A k \in {"3.6", "default"} :
            \/ o[k].v.kind = "ok" /\ o[k].w.kind = "ok"
            \/ o[k].v.kind = "notfound"}

\* what the commands of create_python312_venv (cdsw_switch_to_venv.py) can do;
\* a command that is not run, because an earlier one stopped the function, is
\* given one outcome only
CreateOracles ==
    {c \in [v : VersionOutcomes("3.12.3"), apt : AptOracles, o : CmdOutcomes,
            partial : BOOLEAN, p : PipOutcomes] :
        /\ c.v.kind = "ok" => c.apt = [i \in 1..5 |-> Ok(<<>>)]
        /\ (\E i \in 1..5 : c.apt[i].kind = "notfound") => c.o = NotFound
        /\ c.o.kind # "nonzero" => c.partial = FALSE
        /\ c.o.kind # "ok" => c.p = NonZero}

\* the venv_path arguments the functions of the installer are called with
VenvArgs ==
    {DefaultVenv, <<"/", "opt", "/", "venv">>, <<"~", "bob", "/", "py312">>,
     join3(Home, <<"venvs">>, <<"py312">>)}

EmptyFs == [x \in {} |-> Dir]

\* a machine with the home directory of the user and /usr/bin
BaseFs == makedirs(makedirs(EmptyFs, Home).fs, UsrBin).fs

HomeVenv == join3(Home, <<"venvs">>, <<"py312">>)

HomeLocalPython3 == join4(Home, <<"local">>, <<"bin">>, <<"python3">>)

\* the file systems a process can start on
InitialFs ==
    { BaseFs,
      \* the virtual environment is there, whole
      venv_files(BaseFs, HomeVenv, TRUE),
      \* only its directory is there
      makedirs(BaseFs, HomeVenv).fs,
      \* ~/local/bin/python3 is a regular file
      fs_put(makedirs(BaseFs, dirname(HomeLocalPython3)).fs, HomeLocalPython3, File(<<>>)),
      \* ~/local/bin/python3 is a symbolic link to an interpreter that is there
      fs_put(fs_put(makedirs(BaseFs, dirname(HomeLocalPython3)).fs,
                    common_locations[1], File(<<>>)),
             HomeLocalPython3, Link(common_locations[1])),
      \* ~/local/bin/python3 is a symbolic link to an interpreter that is gone
      fs_put(makedirs(BaseFs, dirname(HomeLocalPython3)).fs,
             HomeLocalPython3, Link(common_locations[1])),
      \* python3.12 is in /usr/local/bin and in /opt/python3.12/bin
      fs_put(fs_put(BaseFs, common_locations[2], File(<<>>)),
             common_locations[3], File(<<>>)),
      \* python3.12 is in /opt/python3.12/bin only
      fs_put(BaseFs, common_locations[3], File(<<>>)) }

\* the environments a process can start in, each with the password database:
\* HOME and PATH set; PATH not set; neither HOME set nor the user in the
\* password database
InitialEnv ==
    { [env |-> [HOME |-> Home, PATH |-> UsrBin], pw |-> [cdsw |-> Home]],
      [env |-> [HOME |-> Home], pw |-> [cdsw |-> Home]],
      [env |-> [PATH |-> UsrBin], pw |-> [x \in {} |-> Home]] }

\* sys.path of a fresh interpreter
InitialSysPath(v) == <<StdlibDir(v), join(StdlibDir(v), <<"site-packages">>)>>

NoCall ==
    [op |-> "none", arg |-> <<>>, ret |-> "None", val |-> <<>>, exc |-> "none",
     cmds |-> <<>>, steps |-> <<>>, status |-> -1]

\* a process on its own: no concurrent runs
NoRuns == <<>>

Init ==
    /\ version \in Versions
    /\ \E e \in InitialEnv : environ = e.env /\ passwd = e.pw
    /\ sys_executable = join(UsrBin, <<"python3">>)
    /\ sys_path = InitialSysPath(version)
    /\ fs \in InitialFs
    /\ calls = 0
    /\ phase = "running"
    /\ last = NoCall
    /\ runs = NoRuns

-----------------------------------------------------------------------------
(* An interactive session: the functions are called one by one             *)

\* the process calls function op with argument arg (<<>> when it takes none),
\* with result r
CallArg(op, arg, r) ==
    /\ phase = "running"
    /\ calls < MaxCalls
    /\ calls' = calls + 1
    /\ sys_executable' = r.st.exe
    /\ environ' = r.st.env
    /\ sys_path' = r.st.syspath
    /\ fs' = r.st.fs
    /\ last' = [op |-> op, arg |-> arg, ret |-> r.ret, val |-> r.val, exc |-> r.exc,
                cmds |-> r.cmds, steps |-> r.steps, status |-> -1]
    /\ UNCHANGED <<version, passwd, phase, runs>>

\* the process calls function op, which takes no argument
Call(op, r) == CallArg(op, <<>>, r)

HelperSwitch ==
    \E w \in WhichOutcomes : Call("switch_to_python312", switch_to_python312(Cur, w))

HelperSwitchAdvanced ==
    \E w \in WhichOutcomes :
        Call("switch_to_python312_advanced", switch_to_python312_advanced(Cur, w))

FixPythonVersion ==
    \E w \in WhichOutcomes : Call("fix_python_version", fix_python_version(Cur, w))

Method1 ==
    \E w \in WhichOutcomes :
        Call("switch_to_python312_method1", switch_to_python312_method1(Cur, w))

Method2 ==
    \E ua \in WhichUaOutcomes, w \in WhichOutcomes, w3 \in Which3Outcomes :
        Call("switch_to_python312_method2", switch_to_python312_method2(Cur, ua, w, w3))

Method3 ==
    \E w \in WhichOutcomes :
        Call("switch_to_python312_method3", switch_to_python312_method3(Cur, w))

SwitchToVenv ==
    \E arg \in VenvArgs : CallArg("switch_to_venv", arg, switch_to_venv(Cur, arg))

SwitchToPython312Venv ==
    \E c \in CreateOracles :
        Call("switch_to_python312_venv",
             switch_to_python312_venv(Cur, c.v, c.apt, c.o, c.partial, c.p))

Next ==
    \/ HelperSwitch
    \/ HelperSwitchAdvanced
    \/ FixPythonVersion
    \/ Method1
    \/ Method2
    \/ Method3
    \/ SwitchToVenv
    \/ SwitchToPython312Venv

Spec == Init /\ [][Next]_vars

-----------------------------------------------------------------------------
(* A run of a script: a fresh process runs main and exits                  *)

\* what a main has done so far: the state, the commands run, the steps taken
\* (each a function main called, with what it returned or raised), and the
\* outcome of the last step
Started(st) ==
    [st |-> st, cmds |-> <<>>, steps |-> <<>>, ret |-> "None", val |-> <<>>,
     exc |-> "none"]

\* main has called fn, with result r
Then(acc, fn, r) ==
    [st |-> r.st, cmds |-> acc.cmds \o r.cmds,
     steps |-> Append(acc.steps, [fn |-> fn, ret |-> r.ret, exc |-> r.exc]),
     ret |-> r.ret, val |-> r.val, exc |-> r.exc]

\* the truth value main's `if` gives the last result
Truthy(acc) == acc.ret = "True" \/ (acc.ret = "value" /\ acc.val # <<>>)

\* the installer ending as the other scripts do, with a plain `main()`
exit_status_without_sys_exit(script, ret, exc) == IF exc # "none" THEN 1 ELSE 0

\* the exit status of the process: 1 when an exception leaves main; the
\* installer passes main's result to sys.exit, the other scripts end normally
exit_status(script, ret, exc) ==
    IF exc # "none" THEN 1
    ELSE IF script = "cdsw_python312_installer" THEN (IF ret = "True" THEN 0 ELSE 1)
    ELSE 0

\* main of script ends: it returns ret, or the exception of its last step leaves it
Exit(script, acc, ret) ==
    /\ sys_executable' = acc.st.exe
    /\ environ' = acc.st.env
    /\ sys_path' = acc.st.syspath
    /\ fs' = acc.st.fs
    /\ calls' = calls + 1
    /\ phase' = "exited"
    /\ last' = [op |-> script, arg |-> <<>>,
                ret |-> IF acc.exc # "none" THEN "raised" ELSE ret,
                val |-> <<>>, exc |-> acc.exc, cmds |-> acc.cmds, steps |-> acc.steps,
                status |-> exit_status(script, ret, acc.exc)]
    /\ UNCHANGED <<version, passwd, runs>>

\* main of cdsw_python_switcher.py, from the alias file on
SwitcherAfterScript(acc) ==
    Exit("cdsw_python_switcher",
         Then(acc, "create_python312_alias", create_python312_alias(acc.st)), "None")

\* main of cdsw_python_switcher.py, step 3: the persistent mechanisms
SwitcherPersist(acc) ==
    SwitcherAfterScript(Then(acc, "create_persistent_switch_script",
                             create_persistent_switch_script(acc.st)))

\* main of cdsw_python_switcher.py returning when all three methods failed
SwitcherStopsAfterMethod3(acc) ==
    IF acc.exc = "none" /\ Truthy(acc) THEN SwitcherPersist(acc)
    ELSE Exit("cdsw_python_switcher", acc, "None")

SwitcherAfterMethod3(acc) ==
    IF acc.exc # "none" THEN Exit("cdsw_python_switcher", acc, "None")
    ELSE SwitcherPersist(acc)

SwitcherAfterMethod2(acc) ==
    IF acc.exc # "none" THEN Exit("cdsw_python_switcher", acc, "None")
    ELSE IF Truthy(acc) THEN SwitcherPersist(acc)
    ELSE \E w \in WhichOutcomes :
            SwitcherAfterMethod3(Then(acc, "switch_to_python312_method3",
                                      switch_to_python312_method3(acc.st, w)))

\* main of cdsw_python_switcher.py trying method 2 whatever method 1 returned
SwitcherTriesMethod2Anyway(acc) ==
    IF acc.exc # "none" THEN Exit("cdsw_python_switcher", acc, "None")
    ELSE \E ua \in WhichUaOutcomes, w \in WhichOutcomes, w3 \in Which3Outcomes :
            SwitcherAfterMethod2(Then(acc, "switch_to_python312_method2",
                                      switch_to_python312_method2(acc.st, ua, w, w3)))

SwitcherAfterMethod1(acc) ==
    IF acc.exc # "none" THEN Exit("cdsw_python_switcher", acc, "None")
    ELSE IF Truthy(acc) THEN SwitcherPersist(acc)
    ELSE \E ua \in WhichUaOutcomes, w \in WhichOutcomes, w3 \in Which3Outcomes :
            SwitcherAfterMethod2(Then(acc, "switch_to_python312_method2",
                                      switch_to_python312_method2(acc.st, ua, w, w3)))

SwitcherAfterFind(acc) ==
    IF acc.exc # "none" THEN Exit("cdsw_python_switcher", acc, "None")
    ELSE \E w \in WhichOutcomes :
            SwitcherAfterMethod1(Then(acc, "switch_to_python312_method1",
                                      switch_to_python312_method1(acc.st, w)))

\* main() of cdsw_python_switcher.py
SwitcherMain ==
    /\ phase = "running"
    /\ calls = 0
    /\ \E po \in MainProbeOracles :
          SwitcherAfterFind(Then(Started(Cur), "find_python_installations",
                                 find_python_installations(Cur, po)))

\* main of cdsw_python312_installer.py, step 7
InstallerAfterActivation(acc) ==
    Exit("cdsw_python312_installer",
         Then(acc, "verify_python312_setup",
              Returns(acc.st, installer_verify_python312_setup(acc.st), <<>>)),
         installer_verify_python312_setup(acc.st))

\* main of cdsw_python312_installer.py, step 6
InstallerAfterPackages(acc, venv_path) ==
    IF acc.exc # "none" THEN Exit("cdsw_python312_installer", acc, "None")
    ELSE InstallerAfterActivation(Then(acc, "create_activation_script",
                                       create_activation_script(acc.st, venv_path)))

\* main of cdsw_python312_installer.py, step 5
InstallerAfterSwitch(acc, venv_path) ==
    IF acc.exc # "none" THEN Exit("cdsw_python312_installer", acc, "None")
    ELSE IF ~Truthy(acc) THEN Exit("cdsw_python312_installer", acc, "False")
    ELSE \E p \in PipOutcomes :
            InstallerAfterPackages(Then(acc, "install_common_packages",
                                        install_common_packages(acc.st, venv_path, p)),
                                   venv_path)

\* main of cdsw_python312_installer.py, step 4
InstallerAfterCreate(acc) ==
    IF acc.exc # "none" THEN Exit("cdsw_python312_installer", acc, "None")
    ELSE IF ~Truthy(acc) THEN Exit("cdsw_python312_installer", acc, "False")
    ELSE InstallerAfterSwitch(Then(acc, "switch_to_venv", switch_to_venv(acc.st, acc.val)),
                              acc.val)

\* main of cdsw_python312_installer.py, step 3
InstallerAfterInstall(acc) ==
    IF acc.exc # "none" THEN Exit("cdsw_python312_installer", acc, "None")
    ELSE IF ~Truthy(acc) THEN Exit("cdsw_python312_installer", acc, "False")
    ELSE \E o \in CmdOutcomes, partial \in BOOLEAN, p \in PipOutcomes :
            InstallerAfterCreate(Then(acc, "create_python312_venv",
                installer_create_python312_venv(acc.st, DefaultVenv, o, partial, p)))

\* main() of cdsw_python312_installer.py, and the exit of the script
InstallerMain ==
    /\ phase = "running"
    /\ calls = 0
    /\ \E v \in VersionOutcomes("3.12.3"), apt \in AptOracles :
          InstallerAfterInstall(Then(Started(Cur), "install_python312_if_needed",
                                     install_python312_if_needed(Cur, v, apt)))

\* main of cdsw_switch_to_venv.py, method 2: the verification
VenvAfterSwitch(acc) ==
    IF acc.exc # "none" THEN Exit("cdsw_switch_to_venv", acc, "None")
    ELSE Exit("cdsw_switch_to_venv",
              Then(acc, "verify_python312_setup", venv_verify_python312_setup(acc.st)),
              "None")

\* main() of cdsw_switch_to_venv.py
VenvMain ==
    /\ phase = "running"
    /\ calls = 0
    /\ \E c \in CreateOracles :
          VenvAfterSwitch(Then(Started(Cur), "switch_to_python312_venv",
              switch_to_python312_venv(Cur, c.v, c.apt, c.o, c.partial, c.p)))

\* main of fix_cdsw_python_version.py after verify_fix
FixAfterVerify(acc) ==
    Exit("fix_cdsw_python_version",
         Then(acc, "create_helper_function", create_helper_function(acc.st)), "None")

\* main of fix_cdsw_python_version.py going on whatever fix_python_version
\* returned
FixGoesOnAfterFix(acc) == FixAfterVerify(Then(acc, "verify_fix", verify_fix(acc.st)))

\* main of fix_cdsw_python_version.py after fix_python_version
FixAfterFix(acc) ==
    IF Truthy(acc)
    THEN FixAfterVerify(Then(acc, "verify_fix", verify_fix(acc.st)))
    ELSE Exit("fix_cdsw_python_version", acc, "None")

\* main() of fix_cdsw_python_version.py
FixMain ==
    /\ phase = "running"
    /\ calls = 0
    /\ \E w \in WhichOutcomes :
          FixAfterFix(Then(Started(Cur), "fix_python_version", fix_python_version(Cur, w)))

NextMain ==
    \/ SwitcherMain
    \/ InstallerMain
    \/ VenvMain
    \/ FixMain

\* every process runs one script
SpecMain == Init /\ [][NextMain]_vars

-----------------------------------------------------------------------------
(* The supporting functions, each called once by a fresh process           *)

\* the fresh process calls function op, with result r
CallOnce(op, arg, r) ==
    /\ calls = 0
    /\ CallArg(op, arg, r)

FindPythonInstallations ==
    \E o \in ProbeOracles :
        CallOnce("find_python_installations", <<>>,
                 find_python_installations(Cur, o))

CreateActivationScript ==
    \E arg \in VenvArgs :
        CallOnce("create_activation_script", arg,
                 create_activation_script(Cur, arg))

InstallPython312IfNeeded ==
    \E v \in VersionOutcomes("3.12.3"), apt \in AptOracles :
        CallOnce("install_python312_if_needed", <<>>,
                 install_python312_if_needed(Cur, v, apt))

InstallCommonPackages ==
    \E arg \in VenvArgs, p \in PipOutcomes :
        CallOnce("install_common_packages", arg,
                 install_common_packages(Cur, arg, p))

CreatePersistentSwitchScript ==
    CallOnce("create_persistent_switch_script", <<>>,
             create_persistent_switch_script(Cur))

CreatePython312Alias ==
    CallOnce("create_python312_alias", <<>>, create_python312_alias(Cur))

NextTools ==
    \/ FindPythonInstallations
    \/ CreateActivationScript
    \/ InstallPython312IfNeeded
    \/ InstallCommonPackages
    \/ CreatePersistentSwitchScript
    \/ CreatePython312Alias

SpecTools == Init /\ [][NextTools]_vars

-----------------------------------------------------------------------------
(* A session that switches between virtual environments, call after call   *)

\* the largest number of switches of such a session
MaxVenvCalls == 3

OptVenv == <<"/", "opt", "/", "venv">>

\* the file systems such a session can start on: the two virtual
\* environments are there; only ~/venvs/py312 is; ~/venvs/py312 is an empty
\* directory
VenvInitialFs ==
    { venv_files(venv_files(BaseFs, HomeVenv, TRUE), OptVenv, TRUE),
      venv_files(BaseFs, HomeVenv, TRUE),
      makedirs(BaseFs, HomeVenv).fs }

\* sys.path when such a session starts: that of a fresh interpreter, or the
\* same with the site-packages directory of ~/venvs/py312 appended to it (by
\* a .pth file, or by sys.path.append earlier in the session)
VenvInitialSysPath(v) ==
    { InitialSysPath(v), InitialSysPath(v) \o <<site_packages(HomeVenv)>> }

\* what the commands of create_python312_venv do in such a session: all
\* succeed, or python3.12 is missing and cannot be installed
VenvCreateOracles ==
    {c \in CreateOracles :
        \/ c.v.kind = "ok" /\ c.o.kind = "ok" /\ c.p.kind = "ok"
        \/ c.v.kind = "notfound" /\ c.o.kind = "notfound"
             /\ \A i \in 1..5 : c.apt[i].kind = "notfound"}

InitVenv ==
    /\ version \in Versions
    /\ \E e \in InitialEnv : environ = e.env /\ passwd = e.pw
    /\ sys_executable = join(UsrBin, <<"python3">>)
    /\ sys_path \in VenvInitialSysPath(version)
    /\ fs \in VenvInitialFs
    /\ calls = 0
    /\ phase = "running"
    /\ last = NoCall
    /\ runs = NoRuns

\* the session calls function op with argument arg, with result r
VenvCall(op, arg, r) ==
    /\ phase = "running"
    /\ calls < MaxVenvCalls
    /\ calls' = calls + 1
    /\ sys_executable' = r.st.exe
    /\ environ' = r.st.env
    /\ sys_path' = r.st.syspath
    /\ fs' = r.st.fs
    /\ last' = [op |-> op, arg |-> arg, ret |-> r.ret, val |-> r.val, exc |-> r.exc,
                cmds |-> r.cmds, steps |-> r.steps, status |-> -1]
    /\ UNCHANGED <<version, passwd, phase, runs>>

AgainSwitchToVenv ==
    \E arg \in VenvArgs : VenvCall("switch_to_venv", arg, switch_to_venv(Cur, arg))

AgainSwitchToPython312Venv ==
    \E c \in VenvCreateOracles :
        VenvCall("switch_to_python312_venv", <<>>,
                 switch_to_python312_venv(Cur, c.v, c.apt, c.o, c.partial, c.p))

NextVenv ==
    \/ AgainSwitchToVenv
    \/ AgainSwitchToPython312Venv

SpecVenv == InitVenv /\ [][NextVenv]_vars

-----------------------------------------------------------------------------
(* The installer makes its virtual environment: create_python312_venv      *)
(* called by a fresh process, or main run by one                           *)

\* a package installed in ~/venvs/py312 before the process starts
InstalledPackage == join(site_packages(HomeVenv), <<"requests">>)

\* the file systems such a process can start on: no virtual environment;
\* ~/venvs/py312 whole, with a package installed in it; ~/venvs/py312 an
\* empty directory
CreateInitialFs ==
    { BaseFs,
      fs_put(venv_files(BaseFs, HomeVenv, TRUE), InstalledPackage, File(<<>>)),
      makedirs(BaseFs, HomeVenv).fs }

InitCreate ==
    /\ version \in Versions
    /\ \E e \in InitialEnv : environ = e.env /\ passwd = e.pw
    /\ sys_executable = join(UsrBin, <<"python3">>)
    /\ sys_path = InitialSysPath(version)
    /\ fs \in CreateInitialFs
    /\ calls = 0
    /\ phase = "running"
    /\ last = NoCall
    /\ runs = NoRuns

CreatePython312Venv ==
    /\ calls = 0
    /\ \E arg \in VenvArgs, o \in CmdOutcomes, partial \in BOOLEAN, p \in PipOutcomes :
          /\ partial => o.kind = "nonzero"
          /\ VenvCall("create_python312_venv", arg,
                      installer_create_python312_venv(Cur, arg, o, partial, p))

NextCreate ==
    \/ CreatePython312Venv
    \/ InstallerMain

SpecCreate == InitCreate /\ [][NextCreate]_vars

-----------------------------------------------------------------------------
(* The version checks, under the interpreters of a range of versions       *)

\* test_python_version() of test_python312.py: "True" or "False"
test_python_version ==
    IF version[1] = 3 /\ version[2] = 12 THEN "True"
    ELSE IF version[1] = 3 /\ version[2] > 12 THEN "True"
    ELSE "False"

\* the largest minor version of the range
MaxMinor == 13

\* the interpreters of the range: 3.6 to 3.MaxMinor and 4.0 to 4.MaxMinor
VersionRange ==
    {<<3, m>> : m \in 6..MaxMinor} \cup {<<4, m>> : m \in 0..MaxMinor}

InitVersion ==
    /\ version \in VersionRange
    /\ \E e \in InitialEnv : environ = e.env /\ passwd = e.pw
    /\ sys_executable = join(UsrBin, <<"python3">>)
    /\ sys_path = InitialSysPath(version)
    /\ fs = BaseFs
    /\ calls = 0
    /\ phase = "running"
    /\ last = NoCall
    /\ runs = NoRuns

VerifyCurrentPython ==
    /\ calls = 0
    /\ VenvCall("verify_current_python", <<>>, Returns(Cur, verify_current_python, <<>>))

VerifyPython312Setup ==
    /\ calls = 0
    /\ VenvCall("verify_python312_setup", <<>>,
                Returns(Cur, installer_verify_python312_setup(Cur), <<>>))

TestPythonVersion ==
    /\ calls = 0
    /\ VenvCall("test_python_version", <<>>, Returns(Cur, test_python_version, <<>>))

NextVersion ==
    \/ VerifyCurrentPython
    \/ VerifyPython312Setup
    \/ TestPythonVersion

SpecVersion == InitVersion /\ [][NextVersion]_vars

-----------------------------------------------------------------------------
(* A session that calls the switch operations of all scripts, one after    *)
(* the other                                                               *)

\* the largest number of calls of such a session
MaxSeqCalls == 2

\* the file systems such a session can start on: nothing installed, or the
\* two virtual environments and python3.12 in /usr/local/bin
SeqInitialFs ==
    { BaseFs,
      fs_put(venv_files(venv_files(BaseFs, HomeVenv, TRUE), OptVenv, TRUE),
             common_locations[2], File(<<>>)) }

InitSeq ==
    /\ version \in Versions
    /\ \E e \in InitialEnv : environ = e.env /\ passwd = e.pw
    /\ sys_executable = join(UsrBin, <<"python3">>)
    /\ sys_path = InitialSysPath(version)
    /\ fs \in SeqInitialFs
    /\ calls = 0
    /\ phase = "running"
    /\ last = NoCall
    /\ runs = NoRuns

\* the session calls function op with argument arg, with result r
SeqCall(op, arg, r) == calls < MaxSeqCalls /\ VenvCall(op, arg, r)

ThenHelperSwitch ==
    \E w \in WhichOutcomes :
        SeqCall("switch_to_python312", <<>>, switch_to_python312(Cur, w))

ThenHelperSwitchAdvanced ==
    \E w \in WhichOutcomes :
        SeqCall("switch_to_python312_advanced", <<>>, switch_to_python312_advanced(Cur, w))

ThenFixPythonVersion ==
    \E w \in WhichOutcomes :
        SeqCall("fix_python_version", <<>>, fix_python_version(Cur, w))

ThenMethod1 ==
    \E w \in WhichOutcomes :
        SeqCall("switch_to_python312_method1", <<>>, switch_to_python312_method1(Cur, w))

ThenMethod2 ==
    \E ua \in WhichUaOutcomes, w \in WhichOutcomes, w3 \in Which3Outcomes :
        SeqCall("switch_to_python312_method2", <<>>,
                switch_to_python312_method2(Cur, ua, w, w3))

ThenMethod3 ==
    \E w \in WhichOutcomes :
        SeqCall("switch_to_python312_method3", <<>>, switch_to_python312_method3(Cur, w))

ThenSwitchToVenv ==
    \E arg \in VenvArgs : SeqCall("switch_to_venv", arg, switch_to_venv(Cur, arg))

ThenSwitchToPython312Venv ==
    \E c \in VenvCreateOracles :
        SeqCall("switch_to_python312_venv", <<>>,
                switch_to_python312_venv(Cur, c.v, c.apt, c.o, c.partial, c.p))

NextSeq ==
    \/ ThenHelperSwitch
    \/ ThenHelperSwitchAdvanced
    \/ ThenFixPythonVersion
    \/ ThenMethod1
    \/ ThenMethod2
    \/ ThenMethod3
    \/ ThenSwitchToVenv
    \/ ThenSwitchToPython312Venv

SpecSeq == InitSeq /\ [][NextSeq]_vars

\* "~/local/bin/python3" as the process expands it
LocalPython3 == join(expanduser(environ, passwd, LocalBin), <<"python3">>)

-----------------------------------------------------------------------------
(* Runs that share the file system: two processes in                       *)
(* switch_to_python312_method2 of the switcher and two in                  *)
(* create_python312_venv of the installer, one system call at a time       *)

SwitcherRuns == {"switcher_a", "switcher_b"}

InstallerRuns == {"installer_a", "installer_b"}

\* the file systems the runs can start on: nothing installed;
\* ~/local/bin/python3 a link to an interpreter that is there and
\* ~/venvs/py312 whole
RaceInitialFs ==
    { BaseFs,
      venv_files(fs_put(fs_put(makedirs(BaseFs, dirname(HomeLocalPython3)).fs,
                               common_locations[1], File(<<>>)),
                        HomeLocalPython3, Link(common_locations[1])),
                 HomeVenv, TRUE) }

\* a run that has not entered its function yet, in the environment it
\* inherits (the runs are started from a shell: HOME and PATH are set)
FreshRun ==
    [pc |-> "start", target |-> <<>>, ret |-> "None", exc |-> "none",
     env |-> environ, exe |-> sys_executable]

InitRace ==
    /\ version \in Versions
    /\ \E e \in InitialEnv :
          /\ {"HOME", "PATH"} \subseteq DOMAIN e.env
          /\ environ = e.env /\ passwd = e.pw
    /\ sys_executable = join(UsrBin, <<"python3">>)
    /\ sys_path = InitialSysPath(version)
    /\ fs \in RaceInitialFs
    /\ calls = 0
    /\ phase = "running"
    /\ last = NoCall
    /\ runs = [r \in SwitcherRuns \cup InstallerRuns |-> FreshRun]

\* run r goes on to pc, the file system now being f
GoesOn(r, pc, f) ==
    /\ runs' = [runs EXCEPT ![r].pc = pc]
    /\ fs' = f
    /\ UNCHANGED <<version, passwd, sys_executable, environ, sys_path, calls, phase, last>>

\* the function of run r returns ret, the file system now being f
RunReturns(r, ret, f) ==
    /\ runs' = [runs EXCEPT ![r].pc = "returned", ![r].ret = ret]
    /\ fs' = f
    /\ UNCHANGED <<version, passwd, sys_executable, environ, sys_path, calls, phase, last>>

\* exception exc leaves the function of run r, the file system now being f
RunRaises(r, exc, f) ==
    /\ runs' = [runs EXCEPT ![r].pc = "raised", ![r].ret = "raised", ![r].exc = exc]
    /\ fs' = f
    /\ UNCHANGED <<version, passwd, sys_executable, environ, sys_path, calls, phase, last>>

\* switch_to_python312_method2 up to os.makedirs(local_bin, exist_ok=True)
Method2Lookups(r) ==
    /\ r \in SwitcherRuns
    /\ runs[r].pc = "start"
    /\ \E ua \in WhichUaOutcomes, w \in WhichOutcomes, w3 \in Which3Outcomes :
         LET fn == "switch_to_python312_method2"
             r0 == subprocess_run(fn, "which update-alternatives", TRUE, FALSE, ua)
             r1 == subprocess_run(fn, "which python3.12", TRUE, TRUE, w)
             r2 == subprocess_run(fn, "which python3", TRUE, TRUE, w3)
             mk == makedirs(fs, expanduser(environ, passwd, LocalBin))
         IN  IF r0.exc # "none" THEN RunRaises(r, r0.exc, fs)
             ELSE IF r1.exc = "CalledProcessError" THEN RunReturns(r, "False", fs)
             ELSE IF r1.exc # "none" THEN RunRaises(r, r1.exc, fs)
             ELSE IF r2.exc = "CalledProcessError" THEN RunReturns(r, "False", fs)
             ELSE IF r2.exc # "none" THEN RunRaises(r, r2.exc, fs)
             ELSE IF mk.exc # "none" THEN RunRaises(r, mk.exc, fs)
             ELSE /\ runs' = [runs EXCEPT ![r].pc = "exists", ![r].target = strip(r1.out)]
                  /\ fs' = mk.fs
                  /\ UNCHANGED <<version, passwd, sys_executable, environ, sys_path,
                                 calls, phase, last>>

\* if os.path.exists(local_python3):
Method2Exists(r) ==
    /\ r \in SwitcherRuns
    /\ runs[r].pc = "exists"
    /\ GoesOn(r, IF exists(fs, LocalPython3) THEN "remove" ELSE "symlink", fs)

\* os.remove(local_python3)
Method2Remove(r) ==
    /\ r \in SwitcherRuns
    /\ runs[r].pc = "remove"
    /\ LET rm == remove(fs, LocalPython3)
       IN  IF rm.exc # "none" THEN RunRaises(r, rm.exc, fs)
           ELSE GoesOn(r, "symlink", rm.fs)

\* os.symlink(python312_path, local_python3), and the rest of the function
Method2Symlink(r) ==
    /\ r \in SwitcherRuns
    /\ runs[r].pc = "symlink"
    /\ LET ln == symlink(fs, runs[r].target, LocalPython3)
       IN  IF ln.exc # "none" THEN RunRaises(r, ln.exc, fs)
           ELSE /\ runs' = [runs EXCEPT
                              ![r].pc = "returned", ![r].ret = "True",
                              ![r].env = prepend_path(runs[r].env,
                                             expanduser(environ, passwd, LocalBin)),
                              ![r].exe = LocalPython3]
                /\ fs' = ln.fs
                /\ UNCHANGED <<version, passwd, sys_executable, environ, sys_path,
                               calls, phase, last>>

\* the virtual environment of the installer, as the runs expand its path
RaceVenv == expanduser(environ, passwd, DefaultVenv)

\* create_python312_venv: if os.path.exists(venv_path):
CreateExists(r) ==
    /\ r \in InstallerRuns
    /\ runs[r].pc = "start"
    /\ GoesOn(r, IF exists(fs, RaceVenv) THEN "rmtree" ELSE "venv", fs)

\* shutil.rmtree(venv_path)
CreateRmtree(r) ==
    /\ r \in InstallerRuns
    /\ runs[r].pc = "rmtree"
    /\ LET rm == rmtree(fs, RaceVenv)
       IN  IF rm.exc # "none" THEN RunRaises(r, rm.exc, fs)
           ELSE GoesOn(r, "venv", rm.fs)

\* subprocess.run(["python3.12", "-m", "venv", venv_path], ...)
CreateVenvCommand(r) ==
    /\ r \in InstallerRuns
    /\ runs[r].pc = "venv"
    /\ \E o \in CmdOutcomes, partial \in BOOLEAN :
         /\ partial => o.kind = "nonzero"
         /\ LET r1 == subprocess_run("create_python312_venv", "python3.12 -m venv",
                                     TRUE, TRUE, o)
                f1 == IF VersionAtLeast(3, 7)
                      THEN after_venv_command(fs, RaceVenv, o, partial)
                      ELSE fs
            IN  IF r1.exc = "CalledProcessError" THEN RunReturns(r, "None", f1)
                ELSE IF r1.exc # "none" THEN RunRaises(r, r1.exc, f1)
                ELSE GoesOn(r, "pip", f1)

\* subprocess.run([pip_path, "install", "--upgrade", ...], ...), and the return
CreatePipUpgrade(r) ==
    /\ r \in InstallerRuns
    /\ runs[r].pc = "pip"
    /\ \E p \in PipOutcomes :
         LET r2 == subprocess_run("create_python312_venv",
                                  "pip install --upgrade pip setuptools wheel", TRUE, TRUE,
                                  pip_outcome(fs, join3(RaceVenv, <<"bin">>, <<"pip">>), p))
         IN  IF r2.exc = "CalledProcessError" THEN RunReturns(r, "None", fs)
             ELSE IF r2.exc # "none" THEN RunRaises(r, r2.exc, fs)
             ELSE RunReturns(r, "value", fs)

NextRace ==
    \E r \in SwitcherRuns \cup InstallerRuns :
        \/ Method2Lookups(r)
        \/ Method2Exists(r)
        \/ Method2Remove(r)
        \/ Method2Symlink(r)
        \/ CreateExists(r)
        \/ CreateRmtree(r)
        \/ CreateVenvCommand(r)
        \/ CreatePipUpgrade(r)

SpecRace == InitRace /\ [][NextRace]_vars

-----------------------------------------------------------------------------
(* Properties                                                              *)

\* the positions of log at which command cmd was run and ended as res
Ran(log, cmd, res) == {i \in DOMAIN log : log[i].cmd = cmd /\ log[i].res = res}

\* a command of log that did not succeed
Failed(ev) == ev.res \in {"nonzero", "notfound"}

\* the switch functions that look python3.12 up with `which` and have no
\* other way to find it
NoFallbackSwitches ==
    {"switch_to_python312", "fix_python_version", "switch_to_python312_method1",
     "switch_to_python312_method2", "switch_to_python312_method3"}

\* C1: whenever `which python3.12` exits non-zero in a call of helper
\* switch_to_python312, fix_python_version or switcher method 1, 2 or 3, the
\* call returns False and raises nothing
C1_LookupFailureReturnsFalse ==
    (last.op \in NoFallbackSwitches /\ Ran(last.cmds, "which python3.12", "nonzero") # {})
        => (last.ret = "False" /\ last.exc = "none")

\* C1 happens: method 2 found update-alternatives, its lookup of python3.12
\* exited non-zero, and it returned False
C1_Witness ==
    /\ last.op = "switch_to_python312_method2"
    /\ Ran(last.cmds, "which update-alternatives", "ok") # {}
    /\ Ran(last.cmds, "which python3.12", "nonzero") # {}
    /\ last.ret = "False"

\* C2 as the specification states it: no call of a function ends with the
\* exception of a failed subprocess or of a missing binary leaving the function
C2_NoExceptionPropagates ==
    last.exc \notin {"CalledProcessError", "FileNotFoundError"}

\* C2 fails: switch_to_python312_venv found no virtual environment, python3.12
\* was missing, `sudo` was missing too, and the FileNotFoundError of the
\* package-manager command left create_python312_venv and the switch function
C2_Witness ==
    /\ last.op = "switch_to_python312_venv"
    /\ last.exc = "FileNotFoundError"
    /\ Ran(last.cmds, "python3.12 --version", "notfound") # {}
    /\ Ran(last.cmds, "sudo apt-get update", "notfound") # {}

\* the python3.12 path a which-based switch call resolved: the trimmed output
\* of the lookup, or, after a lookup that exited non-zero in
\* switch_to_python312_advanced, the first candidate path that exists
ResolvedPath ==
    LET ok == Ran(last.cmds, "which python3.12", "ok")
    IN  IF ok # {} THEN strip(last.cmds[CHOOSE i \in ok : TRUE].out)
        ELSE first_location(fs)

\* C3: after a call that returns True of helper switch_to_python312 or
\* switch_to_python312_advanced, fix_python_version, switcher method 1 or
\* method 3, sys.executable is the resolved python3.12 path and the first entry
\* of PATH is the directory that holds it; except after method 1, PY_PYTHON
\* and PYTHON_VERSION are both "3.12"
C3_SwitchedToResolvedPath ==
    (/\ last.op \in {"switch_to_python312", "switch_to_python312_advanced",
                     "fix_python_version", "switch_to_python312_method1",
                     "switch_to_python312_method3"}
     /\ last.ret = "True")
        => /\ sys_executable = ResolvedPath
           /\ "PATH" \in DOMAIN environ
           /\ join(split(environ["PATH"])[1], <<"python3.12">>) = sys_executable
           /\ last.op # "switch_to_python312_method1"
                => /\ "PY_PYTHON" \in DOMAIN environ
                   /\ "PYTHON_VERSION" \in DOMAIN environ
                   /\ environ["PY_PYTHON"] = <<"3.12">>
                   /\ environ["PYTHON_VERSION"] = <<"3.12">>

\* C3 happens: switch_to_python312_advanced returned True for the path in
\* /opt that its lookup printed, in a process that had a PATH before
C3_Witness ==
    /\ last.op = "switch_to_python312_advanced"
    /\ last.ret = "True"
    /\ sys_executable = join(OptBin, <<"python3.12">>)
    /\ Len(split(environ["PATH"])) > 1

\* the operations that switch the interpreter of the session
SwitchOperations ==
    NoFallbackSwitches \cup {"switch_to_python312_advanced", "switch_to_venv",
                             "switch_to_python312_venv"}

\* C4 as the specification states it: every call of a switch operation that
\* returns, returns True or False
C4_SwitchReturnsBoolean ==
    (last.op \in SwitchOperations /\ last.exc = "none") => last.ret \in {"True", "False"}

\* C4 fails: switch_to_python312_venv found no virtual environment, created
\* one, and returned None
C4_Witness ==
    /\ last.op = "switch_to_python312_venv"
    /\ last.exc = "none"
    /\ last.ret = "None"
    /\ Ran(last.cmds, "python3.12 --version", "ok") # {}

\* the positions of the steps of the run at which main called fn
Step(fn) == {i \in DOMAIN last.steps : last.steps[i].fn = fn}

\* a step that succeeded: it returned True, or a path
Succeeded(step) == step.ret \in {"True", "value"}

\* the steps of the installer's main, in the order of the specification
InstallerOrder ==
    <<"install_python312_if_needed", "create_python312_venv", "switch_to_venv",
      "install_common_packages", "create_activation_script", "verify_python312_setup">>

\* the first three steps that the run took and that did not succeed
FailedAmongFirstThree ==
    {i \in 1..3 : i <= Len(last.steps) /\ ~Succeeded(last.steps[i])}

\* C5 as the specification states it: the installer's main takes its steps in
\* the order install, create venv, switch, install packages, write activation
\* script, verify; it returns False at the first of the first three steps that
\* fails, taking no later step; otherwise it takes all six steps, whatever
\* install packages returns
C5_InstallerStepsFollowBooleans ==
    last.op = "cdsw_python312_installer"
        => /\ \A i \in DOMAIN last.steps : last.steps[i].fn = InstallerOrder[i]
           /\ FailedAmongFirstThree # {}
                => /\ \A i \in FailedAmongFirstThree : Len(last.steps) <= i
                   /\ last.ret = "False"
           /\ FailedAmongFirstThree = {} => Len(last.steps) = 6

\* C5 fails: python3.12 and sudo are missing, install_python312_if_needed
\* raises FileNotFoundError, and main ends with that exception instead of
\* returning False
C5_Witness ==
    /\ last.op = "cdsw_python312_installer"
    /\ Len(last.steps) = 1
    /\ last.exc = "FileNotFoundError"
    /\ Ran(last.cmds, "sudo apt-get update", "notfound") # {}

\* C6: the installer exits with status 0 exactly when install, create venv and
\* switch succeeded and verify returned True, and with status 1 in every other
\* run, whatever install packages and write activation script returned; the
\* other scripts exit with status 0 whenever their main returns, whatever
\* their steps returned
C6_InstallerExitStatus ==
    /\ last.op = "cdsw_python312_installer"
         => /\ last.status \in {0, 1}
            /\ last.status = 0
                 <=> /\ Len(last.steps) = 6
                     /\ FailedAmongFirstThree = {}
                     /\ last.steps[6].ret = "True"
    /\ (/\ last.op \in {"cdsw_python_switcher", "cdsw_switch_to_venv",
                        "fix_cdsw_python_version"}
        /\ last.exc = "none")
         => last.status = 0

\* C6 happens: the installer ran all its steps, install packages failed, and
\* the process exited with status 0
C6_Witness ==
    /\ last.op = "cdsw_python312_installer"
    /\ last.status = 0
    /\ Len(last.steps) = 6
    /\ last.steps[4].ret = "False"

\* the file at path holds content
Holds(path, content) ==
    /\ path \in DOMAIN fs
    /\ fs[path] = File(content)

\* in this run every call of fn that returned a path left content at path
Wrote(fn, path, content) ==
    \A i \in Step(fn) : last.steps[i].ret = "value" => Holds(path, content)

WrittenText == fs[last.val].data

\* C8, amended: the script that create_activation_script writes contains
\* venv_path after os.path.expanduser; it contains venv_path as it was passed
\* exactly when the expansion leaves venv_path unchanged, which it does not for
\* "~/venvs/py312" in a process that has a home directory
C8_ScriptContainsExpandedPath ==
    (last.op = "create_activation_script" /\ last.ret = "value")
        => /\ Holds(last.val, WrittenText)
           /\ Contains(WrittenText, expanduser(environ, passwd, last.arg))
           /\ Contains(WrittenText, last.arg)
                <=> expanduser(environ, passwd, last.arg) = last.arg

\* C8 happens: create_activation_script was passed "~/venvs/py312" and wrote a
\* script that holds the expanded path and not the argument
C8_Witness ==
    /\ last.op = "create_activation_script"
    /\ last.ret = "value"
    /\ last.arg = DefaultVenv
    /\ Contains(WrittenText, join3(Home, <<"venvs">>, <<"py312">>))
    /\ ~Contains(WrittenText, last.arg)

\* C8 as the specification states it: the script that create_activation_script
\* writes contains venv_path exactly as it was passed
C8_ScriptContainsLiteralPath ==
    (last.op = "create_activation_script" /\ last.ret = "value")
        => Contains(WrittenText, last.arg)

\* the names find_python_installations probes: the key of the entry, and the
\* two commands of the probe
ProbedNames ==
    {[key |-> "3.6", version |-> "python3.6 --version", which |-> "which python3.6"],
     [key |-> "3.12", version |-> "python3.12 --version", which |-> "which python3.12"],
     [key |-> "default", version |-> "python3 --version", which |-> "which python3"]}

\* the output of the one run of cmd in the last call
OutputOf(cmd) == last.cmds[CHOOSE i \in Ran(last.cmds, cmd, "ok") : TRUE].out

\* the last call ran cmd
WasRun(cmd) == \E i \in DOMAIN last.cmds : last.cmds[i].cmd = cmd

\* a command of the probe of name n did not succeed
ProbeFailed(n) ==
    \E i \in DOMAIN last.cmds :
        last.cmds[i].cmd \in {n.version, n.which} /\ Failed(last.cmds[i])

\* C9: for each of python3.6, python3.12 and python3, when `<name> --version`
\* and `which <name>` both succeed find_python_installations records the
\* trimmed outputs as the version and the location of the entry; when one of
\* them exits non-zero or the binary is missing, it records no entry for the
\* name, still probes the other names, and raises nothing
C9_ProbesRecorded ==
    last.op = "find_python_installations"
        => \A n \in ProbedNames :
            /\ (Ran(last.cmds, n.version, "ok") # {} /\ Ran(last.cmds, n.which, "ok") # {})
                 => /\ n.key \in DOMAIN last.val
                    /\ last.val[n.key].version = strip(OutputOf(n.version))
                    /\ last.val[n.key].location = strip(OutputOf(n.which))
                    /\ last.val[n.key].version \o <<"\n">> = OutputOf(n.version)
                    /\ last.val[n.key].location \o <<"\n">> = OutputOf(n.which)
            /\ ProbeFailed(n)
                 => /\ n.key \notin DOMAIN last.val
                    /\ last.exc = "none"
                    /\ \A m \in ProbedNames : WasRun(m.version)

\* C9 happens: python3.12 answered --version but `which` was missing for it;
\* python3.6 and python3 are recorded, python3.12 is not
C9_Witness ==
    /\ last.op = "find_python_installations"
    /\ last.exc = "none"
    /\ Ran(last.cmds, "python3.12 --version", "ok") # {}
    /\ Ran(last.cmds, "which python3.12", "notfound") # {}
    /\ DOMAIN last.val = {"3.6", "default"}
    /\ last.val["default"].location = join(UsrBin, <<"python3">>)

\* the pairs of positions of the run's commands at which a command that had
\* failed was executed again
Reruns ==
    {p \in (DOMAIN last.cmds) \X (DOMAIN last.cmds) :
        /\ p[1] < p[2]
        /\ Failed(last.cmds[p[1]])
        /\ last.cmds[p[2]].cmd = last.cmds[p[1]].cmd}

\* C10, amended: no function executes a command again after the command
\* failed in it.  Across the functions of one run a failed command is executed
\* again only by the switcher, whose find_python_installations and methods 1, 2
\* and 3 each look python3.12 up (and whose method 2 looks python3 up after
\* find_python_installations did); the other scripts never execute a failed
\* command again
C10_NoRetryWithinFunction ==
    \A p \in Reruns :
        /\ last.cmds[p[1]].fn # last.cmds[p[2]].fn
        /\ last.op = "cdsw_python_switcher"
        /\ last.cmds[p[1]].cmd \in {"which python3.12", "which python3"}

\* C10 happens: `which python3.12` exited non-zero in method 1 and was
\* executed again by method 2 and by method 3 of the same run
C10_Witness ==
    /\ last.op = "cdsw_python_switcher"
    /\ \E i, j, k \in DOMAIN last.cmds :
          /\ i < j /\ j < k
          /\ last.cmds[i] = [fn |-> "switch_to_python312_method1",
                             cmd |-> "which python3.12", res |-> "nonzero", out |-> <<>>]
          /\ last.cmds[j].fn = "switch_to_python312_method2"
          /\ last.cmds[j].cmd = "which python3.12"
          /\ last.cmds[k].fn = "switch_to_python312_method3"
          /\ last.cmds[k].cmd = "which python3.12"

\* C10 as the specification states it: within one run of a main, a command
\* that failed is never executed again
C10_FailedCommandNeverRunAgain == Reruns = {}

\* the running interpreter is older than 3.12
OlderThan312 == ~VersionAtLeast(3, 12)

VenvPath == expanduser(environ, passwd, DefaultVenv)

\* the session is switched to the environment at venv_path: VIRTUAL_ENV is
\* venv_path and the first entry of PATH is its bin directory
SwitchedTo(venv_path) ==
    /\ "VIRTUAL_ENV" \in DOMAIN environ
    /\ environ["VIRTUAL_ENV"] = venv_path
    /\ "PATH" \in DOMAIN environ
    /\ split(environ["PATH"])[1] = join(venv_path, <<"bin">>)

\* C12 as the specification states it: when switch_to_python312_venv has
\* returned and ~/venvs/py312 exists, the session is switched to it, also
\* when the call created the environment
C12_SwitchedWheneverVenvExists ==
    (/\ last.op = "switch_to_python312_venv"
     /\ last.exc = "none"
     /\ exists(fs, VenvPath))
        => SwitchedTo(VenvPath)

\* C12 fails: the environment was missing, the call created it with
\* `python3.12 -m venv` and upgraded pip, and returned with VIRTUAL_ENV unset
\* and PATH as it was
C12_Witness ==
    /\ last.op = "switch_to_python312_venv"
    /\ last.exc = "none"
    /\ Ran(last.cmds, "python3.12 -m venv", "ok") # {}
    /\ Ran(last.cmds, "pip install --upgrade pip", "ok") # {}
    /\ exists(fs, join3(VenvPath, <<"bin">>, <<"python">>))
    /\ "VIRTUAL_ENV" \notin DOMAIN environ
    /\ "PATH" \in DOMAIN environ
    /\ environ["PATH"] = UsrBin

\* the setting of variable k in the environment env: unset, or set to a value
Setting(env, k) ==
    IF k \in DOMAIN env THEN [set |-> TRUE, value |-> env[k]]
    ELSE [set |-> FALSE, value |-> <<>>]

\* the call that log records found no interpreter: its lookup of python3.12
\* did not succeed, or a lookup of python3.12 or python3 failed in it
LookupFailed(log) ==
    \/ Ran(log, "which python3.12", "ok") = {}
    \/ \E i \in DOMAIN log :
          log[i].cmd \in {"which python3.12", "which python3"} /\ Failed(log[i])

\* C13: a call of helper switch_to_python312, fix_python_version or switcher
\* method 1, 2 or 3 that returns False because the lookup failed leaves
\* sys.executable, PATH, PY_PYTHON, PYTHON_VERSION and the file system as
\* they were before the call
C13_FailedLookupChangesNothing ==
    [][(/\ last'.op \in NoFallbackSwitches
        /\ last'.ret = "False"
        /\ LookupFailed(last'.cmds))
          => /\ sys_executable' = sys_executable
             /\ fs' = fs
             /\ \A k \in {"PATH", "PY_PYTHON", "PYTHON_VERSION"} :
                   Setting(environ', k) = Setting(environ, k)]_vars

\* C13 happens: method 2 found python3.12, its lookup of python3 exited
\* non-zero, it returned False, and the session is as it started: no
\* ~/local/bin, sys.executable and PATH untouched
C13_Witness ==
    /\ last.op = "switch_to_python312_method2"
    /\ last.ret = "False"
    /\ Ran(last.cmds, "which python3.12", "ok") # {}
    /\ Ran(last.cmds, "which python3", "nonzero") # {}
    /\ sys_executable = join(UsrBin, <<"python3">>)
    /\ Setting(environ, "PATH") = [set |-> TRUE, value |-> UsrBin]
    /\ ~exists(fs, expanduser(environ, passwd, LocalBin))

\* C14 as the specification states it: switch_to_python312_advanced returns
\* True with sys.executable the resolved path (the trimmed output of a
\* successful `which python3.12`, otherwise the first of the three candidate
\* paths that exists) when there is one, and False exactly when there is none
C14_AdvancedResolvesOrReturnsFalse ==
    last.op = "switch_to_python312_advanced"
        => /\ ResolvedPath = <<>> <=> last.ret = "False"
           /\ ResolvedPath # <<>> <=> last.ret = "True"
           /\ last.ret = "True" => sys_executable = ResolvedPath

\* C14 fails: `which` is not installed and /usr/local/bin/python3.12 exists;
\* the call resolves nothing and returns nothing, it ends with
\* FileNotFoundError
C14_Witness ==
    /\ last.op = "switch_to_python312_advanced"
    /\ Ran(last.cmds, "which python3.12", "notfound") # {}
    /\ first_location(fs) = common_locations[2]
    /\ last.exc = "FileNotFoundError"
    /\ sys_executable = join(UsrBin, <<"python3">>)

\* the steps that the main of fix_cdsw_python_version.py took
FixSteps == [i \in DOMAIN last.steps |-> last.steps[i].fn]

\* C15: fix_python_version returns True exactly when `which python3.12`
\* succeeds and zoneinfo can be imported.  When the lookup succeeds and the
\* import fails it returns False with sys.executable, PATH, PY_PYTHON and
\* PYTHON_VERSION changed all the same, and main calls neither verify_fix nor
\* create_helper_function; main calls both after a True
C15_FixReturnsTrueOnlyWithZoneinfo ==
    last.op = "fix_cdsw_python_version"
        => /\ last.exc = "none"
           /\ last.steps[1].fn = "fix_python_version"
           /\ last.steps[1].ret \in {"True", "False"}
           /\ last.steps[1].ret = "True"
                <=> (Ran(last.cmds, "which python3.12", "ok") # {} /\ import_zoneinfo(Cur))
           /\ last.steps[1].ret = "True"
                => FixSteps = <<"fix_python_version", "verify_fix", "create_helper_function">>
           /\ last.steps[1].ret = "False" => FixSteps = <<"fix_python_version">>
           /\ (Ran(last.cmds, "which python3.12", "ok") # {} /\ ~import_zoneinfo(Cur))
                => /\ last.steps[1].ret = "False"
                   /\ sys_executable = strip(OutputOf("which python3.12"))
                   /\ split(environ["PATH"])[1] = dirname(sys_executable)
                   /\ Setting(environ, "PY_PYTHON") = [set |-> TRUE, value |-> <<"3.12">>]
                   /\ Setting(environ, "PYTHON_VERSION") = [set |-> TRUE, value |-> <<"3.12">>]

\* C15 happens: under Python 3.8 the lookup printed /opt/py312/bin/python3.12,
\* zoneinfo could not be imported, fix_python_version returned False with the
\* session changed, and main stopped there
C15_Witness ==
    /\ last.op = "fix_cdsw_python_version"
    /\ version = <<3, 8>>
    /\ Len(last.steps) = 1
    /\ last.steps[1].ret = "False"
    /\ sys_executable = join(OptBin, <<"python3.12">>)
    /\ Setting(environ, "PYTHON_VERSION") = [set |-> TRUE, value |-> <<"3.12">>]

\* the switching methods of the switcher, in the order of its main
Methods ==
    <<"switch_to_python312_method1", "switch_to_python312_method2",
      "switch_to_python312_method3">>

\* the steps of the run that are calls of a switching method, in the order
\* main took them
RECURSIVE MethodSteps(_)
MethodSteps(steps) ==
    IF steps = <<>> THEN <<>>
    ELSE IF \E m \in 1..3 : Head(steps).fn = Methods[m]
    THEN <<Head(steps)>> \o MethodSteps(Tail(steps))
    ELSE MethodSteps(Tail(steps))

\* the entries of PATH in env (the one empty entry when PATH is unset)
PathEntries(env) == split(environ_get(env, "PATH", <<>>))

\* C16: the switcher's main calls the methods in the order 1, 2, 3, each one
\* only after all earlier ones returned False, and none after one returned
\* True; so a run adds at most one directory to PATH, changes sys.executable
\* only when a method returned True, and leaves both alone otherwise
C16_MethodsInOrderUntilSuccess ==
    /\ [](last.op = "cdsw_python_switcher"
            => LET tried == MethodSteps(last.steps)
               IN  /\ Len(tried) <= 3
                   /\ \A i \in DOMAIN tried :
                        /\ tried[i].fn = Methods[i]
                        /\ \A j \in 1..(i - 1) : tried[j].ret = "False"
                   /\ Cardinality({i \in DOMAIN tried : tried[i].ret = "True"}) <= 1)
    /\ [][last'.op = "cdsw_python_switcher"
            => LET tried == MethodSteps(last'.steps)
                   switched == \E i \in DOMAIN tried : tried[i].ret = "True"
               IN  /\ Len(PathEntries(environ')) <= Len(PathEntries(environ)) + 1
                   /\ ~switched => /\ sys_executable' = sys_executable
                                   /\ Setting(environ', "PATH") = Setting(environ, "PATH")
                   /\ switched => /\ sys_executable' # sys_executable
                                  /\ Tail(PathEntries(environ')) = PathEntries(environ)]_vars

\* C16 happens: method 1 returned False, method 2 returned True, method 3 was
\* not called, and PATH holds the one directory method 2 added before /usr/bin
C16_Witness ==
    /\ last.op = "cdsw_python_switcher"
    /\ [i \in DOMAIN last.steps |-> last.steps[i].fn]
         = <<"find_python_installations", "switch_to_python312_method1",
             "switch_to_python312_method2", "create_persistent_switch_script",
             "create_python312_alias">>
    /\ last.steps[2].ret = "False"
    /\ last.steps[3].ret = "True"
    /\ PathEntries(environ) = <<expanduser(environ, passwd, LocalBin), UsrBin>>

\* the result of `which python3.12` does not change during the run: every
\* execution of it ends in the same way with the same output, and the `which`
\* executable that method 1 used is still there for method 2's lookup of
\* update-alternatives
StableLookup ==
    /\ \A i, j \in DOMAIN last.cmds :
          (last.cmds[i].cmd = "which python3.12" /\ last.cmds[j].cmd = "which python3.12")
            => (last.cmds[i].res = last.cmds[j].res /\ last.cmds[i].out = last.cmds[j].out)
    /\ Ran(last.cmds, "which python3.12", "nonzero") # {}
         => Ran(last.cmds, "which update-alternatives", "notfound") = {}

\* C17: in a run of the switcher's main in which the result of
\* `which python3.12` does not change, no run has method 2 or method 3 return
\* True; when method 1 returns False, methods 2 and 3 are called and return
\* False too, and main goes on to write its two files
C17_LaterMethodsFailWithMethod1 ==
    (last.op = "cdsw_python_switcher" /\ StableLookup)
        => LET tried == MethodSteps(last.steps)
           IN  /\ \A i \in DOMAIN tried : i > 1 => tried[i].ret # "True"
               /\ (Len(tried) >= 1 /\ tried[1].ret = "False")
                    => /\ Len(tried) = 3
                       /\ tried[2].ret = "False"
                       /\ tried[3].ret = "False"
                       /\ last.exc = "none"
                       /\ Len(last.steps) = 6

\* C17 happens: `which python3.12` exited non-zero in find_python_installations
\* and in all three methods, and all three methods returned False
C17_Witness ==
    /\ last.op = "cdsw_python_switcher"
    /\ StableLookup
    /\ Cardinality(Ran(last.cmds, "which python3.12", "nonzero")) = 4
    /\ \A i \in 2..4 : last.steps[i].ret = "False"
    /\ Len(last.steps) = 6

\* C18 as the specification states it: when `which python3.12` and
\* `which python3` both succeed, method 2 returns True, ~/local/bin/python3 is
\* a symbolic link to the path the first lookup printed, PATH begins with
\* ~/local/bin and sys.executable is ~/local/bin/python3, whatever was at
\* ~/local/bin/python3 before
C18_Method2LeavesSymlink ==
    (/\ last.op = "switch_to_python312_method2"
     /\ Ran(last.cmds, "which python3.12", "ok") # {}
     /\ Ran(last.cmds, "which python3", "ok") # {})
        => /\ last.ret = "True"
           /\ LocalPython3 \in DOMAIN fs
           /\ fs[LocalPython3] = Link(strip(OutputOf("which python3.12")))
           /\ PathEntries(environ)[1] = expanduser(environ, passwd, LocalBin)
           /\ sys_executable = LocalPython3

\* C18 fails: ~/local/bin/python3 was a symbolic link to /usr/bin/python3.12,
\* which is gone; both lookups succeeded, the second one naming
\* /opt/py312/bin/python3.12; method 2 ended with FileExistsError and the old
\* link is still there
C18_Witness ==
    /\ last.op = "switch_to_python312_method2"
    /\ Ran(last.cmds, "which python3", "ok") # {}
    /\ Ran(last.cmds, "which python3.12", "ok") # {}
    /\ OutputOf("which python3.12") = join(OptBin, <<"python3.12">>) \o <<"\n">>
    /\ last.exc = "FileExistsError"
    /\ LocalPython3 \in DOMAIN fs
    /\ fs[LocalPython3] = Link(common_locations[1])
    /\ ~exists(fs, common_locations[1])
    /\ sys_executable = join(UsrBin, <<"python3">>)

\* the virtual environment the last call switched to (that of the argument
\* of switch_to_venv, ~/venvs/py312 for switch_to_python312_venv)
SwitchedVenv ==
    IF last.op = "switch_to_venv" THEN expanduser(environ, passwd, last.arg)
    ELSE expanduser(environ, passwd, DefaultVenv)

\* the positions of entry p in sys.path
Positions(p) == {i \in 1..Len(sys_path) : sys_path[i] = p}

\* the last call was a switch to a virtual environment whose site-packages
\* directory exists
SwitchedWithSitePackages ==
    /\ last.op \in {"switch_to_venv", "switch_to_python312_venv"}
    /\ last.ret = "True"
    /\ exists(fs, site_packages(SwitchedVenv))

\* C19 as the specification states it: after a switch to a virtual
\* environment whose lib/python3.12/site-packages exists, that directory is
\* the first element of sys.path and occurs in it exactly once, whatever
\* sys.path was before and however many switches came before
C19_SitePackagesFirstAndOnce ==
    SwitchedWithSitePackages
        => /\ sys_path # <<>>
           /\ sys_path[1] = site_packages(SwitchedVenv)
           /\ Cardinality(Positions(site_packages(SwitchedVenv))) = 1

\* C19 fails: a session started with a fresh sys.path, switched to
\* ~/venvs/py312, then to /opt/venv, then to ~/venvs/py312 again; the
\* site-packages directory of /opt/venv is still ahead of that of
\* ~/venvs/py312
C19_Witness ==
    /\ SwitchedWithSitePackages
    /\ calls = 3
    /\ SwitchedVenv = HomeVenv
    /\ Len(sys_path) >= 2
    /\ sys_path[1] = site_packages(OptVenv)
    /\ sys_path[2] = site_packages(HomeVenv)
    /\ Positions(site_packages(HomeVenv)) = {2}
    /\ environ["VIRTUAL_ENV"] = HomeVenv

\* the step is a call of switch_to_venv of the installer
SwitchToVenvStep == last'.op = "switch_to_venv" /\ calls' = calls + 1

\* the virtual environment that call is about
AskedVenv == expanduser(environ, passwd, last'.arg)

\* C20: switch_to_venv of the installer returns False exactly when the
\* directory of the virtual environment does not exist, and then changes
\* nothing; when the directory exists it returns True with VIRTUAL_ENV set to
\* it and its bin directory put in front of PATH, also when site-packages or
\* bin/python is missing; sys.executable changes only when bin/python exists
\* and sys.path only when site-packages exists
C20_SwitchToVenvFollowsDirectory ==
    [][SwitchToVenvStep
         => /\ last'.exc = "none"
            /\ last'.ret \in {"True", "False"}
            /\ (last'.ret = "False") <=> ~exists(fs, AskedVenv)
            /\ last'.ret = "False"
                 => /\ environ' = environ
                    /\ sys_path' = sys_path
                    /\ sys_executable' = sys_executable
            /\ fs' = fs
            /\ last'.ret = "True"
                 => /\ Setting(environ', "VIRTUAL_ENV") = [set |-> TRUE, value |-> AskedVenv]
                    /\ Setting(environ', "PATH")
                         = [set |-> TRUE,
                            value |-> join(AskedVenv, <<"bin">>) \o <<":">>
                                        \o Setting(environ, "PATH").value]
            /\ sys_executable' # sys_executable
                 => /\ exists(fs, join3(AskedVenv, <<"bin">>, <<"python">>))
                    /\ sys_executable' = join3(AskedVenv, <<"bin">>, <<"python">>)
            /\ sys_path' # sys_path => exists(fs, site_packages(AskedVenv))]_vars

\* C20 happens: ~/venvs/py312 is an empty directory; switch_to_venv returned
\* True, VIRTUAL_ENV and PATH name the environment, sys.executable and sys.path
\* are those of the start
C20_Witness ==
    /\ last.op = "switch_to_venv"
    /\ last.ret = "True"
    /\ calls = 1
    /\ exists(fs, HomeVenv)
    /\ ~exists(fs, site_packages(HomeVenv))
    /\ ~exists(fs, join3(HomeVenv, <<"bin">>, <<"python">>))
    /\ SwitchedTo(HomeVenv)
    /\ sys_executable = join(UsrBin, <<"python3">>)
    /\ sys_path \in VenvInitialSysPath(version)

\* the commands of create_python312_venv of the installer
VenvCommand == "python3.12 -m venv"

PipUpgrade == "pip install --upgrade pip setuptools wheel"

\* the last operation was a call of create_python312_venv of the installer
CreateCalled == last.op = "create_python312_venv" /\ phase = "running"

\* the last operation was a run of the installer in which main called
\* create_python312_venv
CreateStepTaken ==
    /\ last.op = "cdsw_python312_installer"
    /\ Len(last.steps) >= 2
    /\ last.steps[2].fn = "create_python312_venv"

\* C21 as the specification states it: create_python312_venv of the installer
\* removes what was at the path of the virtual environment, returns the path
\* when the creation command and the pip upgrade both succeeded and None in
\* every other case; after None nothing of the old environment remains, and
\* main of the installer stops (returning False, exit status 1) after a None,
\* also when only the pip upgrade failed
C21_CreateReturnsPathOrNone ==
    /\ CreateCalled
         => /\ last.ret \in {"value", "None"}
            /\ (last.ret = "value")
                 <=> /\ Ran(last.cmds, VenvCommand, "ok") # {}
                     /\ Ran(last.cmds, PipUpgrade, "ok") # {}
            /\ last.ret = "value" => last.val = expanduser(environ, passwd, last.arg)
            /\ InstalledPackage \in DOMAIN fs
                 => expanduser(environ, passwd, last.arg) # HomeVenv
            /\ (last.ret = "None" /\ expanduser(environ, passwd, last.arg) = HomeVenv)
                 => InstalledPackage \notin DOMAIN fs
    /\ CreateStepTaken
         => /\ last.steps[2].ret \in {"value", "None"}
            /\ (last.steps[2].ret = "value")
                 <=> /\ Ran(last.cmds, VenvCommand, "ok") # {}
                     /\ Ran(last.cmds, PipUpgrade, "ok") # {}
            /\ last.steps[2].ret = "None"
                 => /\ Len(last.steps) = 2
                    /\ last.ret = "False"
                    /\ last.status = 1
                    /\ expanduser(environ, passwd, DefaultVenv) = HomeVenv
                         => InstalledPackage \notin DOMAIN fs

\* C21 fails: `python3.12` is not on PATH; create_python312_venv ended with
\* FileNotFoundError, returning neither the path nor None
C21_Witness ==
    /\ CreateCalled
    /\ last.arg = DefaultVenv
    /\ Ran(last.cmds, VenvCommand, "notfound") # {}
    /\ last.ret = "raised"
    /\ last.exc = "FileNotFoundError"
    /\ ~exists(fs, HomeVenv)

\* the last operation was one of the three version checks
VersionChecked ==
    last.op \in {"verify_current_python", "verify_python312_setup", "test_python_version"}

\* the running interpreter is 3.12 or a later one, in the order of (major, minor)
AtLeast312 == version[1] > 3 \/ (version[1] = 3 /\ version[2] >= 12)

\* C22 as the specification states it: verify_current_python of the switcher,
\* verify_python312_setup of the installer (its two imports succeeding) and
\* test_python_version return True exactly when (major, minor) of the running
\* interpreter is at least (3, 12) in lexicographic order, major 4 with a
\* minor below 12 included
C22_VersionChecksAreLexicographic ==
    (VersionChecked /\ import_zoneinfo(Cur) /\ import_fcntl(Cur))
        => ((last.ret = "True") <=> AtLeast312)

\* C22 fails: under Python 4.0 verify_current_python returned False
C22_Witness ==
    /\ last.op = "verify_current_python"
    /\ version = <<4, 0>>
    /\ last.ret = "False"
    /\ last.exc = "none"

\* C23: after any sequence of calls of the switch operations of the scripts,
\* whenever VIRTUAL_ENV is set its bin directory is an entry of PATH, and
\* PY_PYTHON is set exactly when PYTHON_VERSION is, both then being '3.12'
C23_EnvironmentStaysConsistent ==
    /\ "VIRTUAL_ENV" \in DOMAIN environ
         => \E i \in DOMAIN PathEntries(environ) :
               PathEntries(environ)[i] = join(environ["VIRTUAL_ENV"], <<"bin">>)
    /\ ("PY_PYTHON" \in DOMAIN environ) <=> ("PYTHON_VERSION" \in DOMAIN environ)
    /\ "PY_PYTHON" \in DOMAIN environ
         => environ["PY_PYTHON"] = V312 /\ environ["PYTHON_VERSION"] = V312

\* C23 happens: the session switched to /opt/venv, then method 3 of the
\* switcher put the directory of python3.12 in front of PATH; VIRTUAL_ENV
\* names /opt/venv, whose bin directory is now the second entry of PATH, and
\* the two version variables are set
C23_Witness ==
    /\ calls = 2
    /\ last.op = "switch_to_python312_method3"
    /\ last.ret = "True"
    /\ "VIRTUAL_ENV" \in DOMAIN environ
    /\ environ["VIRTUAL_ENV"] = OptVenv
    /\ Len(PathEntries(environ)) >= 2
    /\ PathEntries(environ)[1] # join(OptVenv, <<"bin">>)
    /\ PathEntries(environ)[2] = join(OptVenv, <<"bin">>)
    /\ "PY_PYTHON" \in DOMAIN environ
    /\ "PYTHON_VERSION" \in DOMAIN environ

\* the other run of the same script
OtherRun(r) ==
    CHOOSE q \in SwitcherRuns \cup InstallerRuns :
        q # r /\ (q \in SwitcherRuns <=> r \in SwitcherRuns)

\* run r takes the step it is at pc for
Takes(r, pc) == runs[r].pc = pc /\ runs'[r].pc # pc

\* pip of the virtual environment of the installer
RacePip == join3(RaceVenv, <<"bin">>, <<"pip">>)

\* C24: nothing guards the file system against a concurrent run.  A run of
\* method 2 that is about to create ~/local/bin/python3 can find there the link
\* the other run made since its test, and its os.symlink then fails with
\* FileExistsError, which leaves the function (likewise os.remove with
\* FileNotFoundError when the other run removed the file first).  The rmtree of
\* one run of create_python312_venv removes the environment whatever the other
\* run is doing, also when that one has just created it and is about to run
\* its pip, which then fails with FileNotFoundError
C24_NoGuardAgainstConcurrentRun ==
    /\ [](\A r \in SwitcherRuns :
             (runs # NoRuns /\ runs[r].pc = "symlink" /\ lexists(fs, LocalPython3))
                => /\ runs[OtherRun(r)].pc = "returned"
                   /\ runs[OtherRun(r)].ret = "True"
                   /\ fs[LocalPython3] = Link(runs[OtherRun(r)].target))
    /\ [][\A r \in SwitcherRuns :
             /\ (Takes(r, "symlink") /\ lexists(fs, LocalPython3))
                  => /\ runs'[r].pc = "raised"
                     /\ runs'[r].exc = "FileExistsError"
                     /\ fs' = fs
             /\ (Takes(r, "remove") /\ ~lexists(fs, LocalPython3))
                  => /\ runs'[r].pc = "raised"
                     /\ runs'[r].exc = "FileNotFoundError"]_vars
    /\ [][\A r \in InstallerRuns :
             /\ (Takes(r, "rmtree") /\ lexists(fs, RaceVenv))
                  => /\ runs'[r].pc = "venv"
                     /\ \A x \in DOMAIN fs' : ~Below(RaceVenv, x)
             /\ (Takes(r, "pip") /\ ~exists(fs, RacePip))
                  => /\ runs'[r].pc = "raised"
                     /\ runs'[r].exc = "FileNotFoundError"]_vars

\* C24 happens, both interleavings at once: switcher_b tested
\* ~/local/bin/python3 before switcher_a made its link and failed on it with
\* FileExistsError; installer_b removed ~/venvs/py312 after installer_a had
\* created it and before installer_a ran its pip
C24_Witness ==
    /\ runs # NoRuns
    /\ runs["switcher_a"].pc = "returned"
    /\ runs["switcher_a"].ret = "True"
    /\ runs["switcher_b"].pc = "raised"
    /\ runs["switcher_b"].exc = "FileExistsError"
    /\ lexists(fs, LocalPython3)
    /\ fs[LocalPython3] = Link(runs["switcher_a"].target)
    /\ runs["installer_a"].pc = "pip"
    /\ runs["installer_b"].pc = "venv"
    /\ ~exists(fs, RaceVenv)

=============================================================================
